---- MODULE Spec2Model ----
(***************************************************************************)
(* Model of the in-memory cart store (merchant_agent/cart_service.py), the *)
(* cart tools that call it (client_tool/tools.py) and the pricing boundary *)
(* they use (merchant_agent/tools.py).                                     *)
(*                                                                         *)
(* Money is kept in integer cents.  A Python dict key that may be absent   *)
(* is modelled as an optional value: <<>> when the key is absent, <<x>>    *)
(* when it is present with value x.  datetime.now() is a logical clock     *)
(* that advances by one at every call.                                     *)
(***************************************************************************)
EXTENDS Integers, Sequences, FiniteSets, TLC

VARIABLES
    carts,                  \* CartService._carts: session_id -> cart dict
    shipping_calculator,    \* CartService.shipping_calculator
    now,                    \* number of datetime.now() calls made so far
    nops,                   \* number of store operations / tool steps taken
    last,                   \* the last operation: its name, arguments and return
    current_session_id,     \* session._current_session_id
    inv,                    \* the add_to_cart tool invocations in flight
    mt,                     \* the MerchantTools method call in flight
    fn_in,                  \* input of the pure function under study
    fn_out                  \* its result, <<>> before it has been applied

vars == <<carts, shipping_calculator, now, nops, last, current_session_id, inv,
          mt, fn_in, fn_out>>

(***************************************************************************)
(* Bounds and input sets                                                   *)
(***************************************************************************)
MaxOps == 3
MaxDeepOps == 4
MaxMatchLen == 2
MaxItemCount == 5
MaxLines == 2
MaxSeedOps == 1

Sessions == {"s1", "s2"}
Products == {"p1", "p2"}

None == <<>>
Some(x) == <<x>>

\* A variation dict: "type" and "name" and, optionally, "price_modifier".
Var(t, n) == [type |-> t, name |-> n, price_modifier |-> None]
VarPM(t, n, m) == [type |-> t, name |-> n, price_modifier |-> Some(m)]

ColorRed == Var("color", "red")
SizeL == Var("size", "L")

\* The variation lists callers pass to the cart operations.
VarLists == {<<>>, <<ColorRed, SizeL>>, <<SizeL, ColorRed>>}

\* (product_id, variations) pairs callers name: p1 is sold in variations.
Lines == {<<"p1", <<>>>>, <<"p1", <<ColorRed, SizeL>>>>,
          <<"p1", <<SizeL, ColorRed>>>>, <<"p2", <<>>>>}

\* Quantities and unit prices of the adds that are let through, and the
\* quantities of the adds that must be refused.
QtyInputs == {1, 2}
BadQtyInputs == {0, -1}
PriceInputs == {None, Some(2500)}

\* The shipping policies a caller may install; "custom" depends on the items
\* and goes negative for a single unit.
Calculators == {"default", "custom"}

(***************************************************************************)
(* Variation matcher: CartService._variations_match                        *)
(***************************************************************************)
\* Python's order on the strings the model uses ("" < "L" < "color" < ...).
StrOrder == <<"", "L", "color", "red", "size">>

StrRank(str) == CHOOSE i \in 1..Len(StrOrder) : StrOrder[i] = str

\* The sort key lambda x: (x.get("type", ""), x.get("name", "")), compared as
\* Python compares tuples.
KeyLess(x, y) ==
    \/ StrRank(x.type) < StrRank(y.type)
    \/ x.type = y.type /\ StrRank(x.name) < StrRank(y.name)

\* Insert x into the key-sorted list l after every element whose key is not
\* greater (sorted() is stable).
RECURSIVE InsertByKey(_, _)
InsertByKey(x, l) ==
    IF l = <<>> THEN <<x>>
    ELSE IF KeyLess(x, Head(l)) THEN <<x>> \o l
    ELSE <<Head(l)>> \o InsertByKey(x, Tail(l))

RECURSIVE SortedByKey(_)
SortedByKey(l) ==
    IF l = <<>> THEN <<>>
    ELSE InsertByKey(l[Len(l)], SortedByKey(SubSeq(l, 1, Len(l) - 1)))

\* Variant: the lists compared as given, without sorting them first.
VariationsMatchUnsorted(vars1, vars2) ==
    IF Len(vars1) # Len(vars2) THEN FALSE
    ELSE vars1 = vars2

VariationsMatch(vars1, vars2) ==
    IF Len(vars1) # Len(vars2) THEN FALSE
    ELSE SortedByKey(vars1) = SortedByKey(vars2)

(***************************************************************************)
(* Shipping policy                                                         *)
(***************************************************************************)
FreeShippingFrom == 5000
BaseFee == 500
FeePerExtraItem == 50

Max(a, b) == IF a >= b THEN a ELSE b

RECURSIVE SumQuantity(_)
SumQuantity(items) ==
    IF items = <<>> THEN 0 ELSE Head(items).quantity + SumQuantity(Tail(items))

\* Variant: free shipping only above the threshold, not at it.
DefaultShippingCalculatorStrict(subtotal, item_count, items) ==
    IF subtotal > FreeShippingFrom THEN 0
    ELSE BaseFee + Max(0, item_count - 1) * FeePerExtraItem

DefaultShippingCalculator(subtotal, item_count, items) ==
    IF subtotal >= FreeShippingFrom THEN 0
    ELSE BaseFee + Max(0, item_count - 1) * FeePerExtraItem

\* The call self.shipping_calculator(subtotal, item_count, items): the default
\* policy or one of the custom policies a caller may install.
ApplyCalculator(calc, subtotal, item_count, items) ==
    CASE calc = "default" -> DefaultShippingCalculator(subtotal, item_count, items)
      [] calc = "custom" -> 200 * SumQuantity(items) - 300

\* sum(item.get("amount", 0) for item in items)
RECURSIVE SumAmounts(_)
SumAmounts(items) ==
    IF items = <<>> THEN 0
    ELSE (IF Head(items).amount # None THEN Head(items).amount[1] ELSE 0)
         + SumAmounts(Tail(items))

\* Variant: only the items with an amount are counted and handed to the
\* calculator.
RecalculateShippingPricedOnly(cs, calc, s) ==
    IF s \notin DOMAIN cs THEN 0
    ELSE LET items == SelectSeq(cs[s].items, LAMBDA it : it.amount # None)
         IN  Max(0, ApplyCalculator(calc, SumAmounts(items), Len(items), items))

\* Variant: the calculator's result returned without the max(0.0, ...).
RecalculateShippingUnclamped(cs, calc, s) ==
    IF s \notin DOMAIN cs THEN 0
    ELSE LET items == cs[s].items
         IN  ApplyCalculator(calc, SumAmounts(items), Len(items), items)

RecalculateShipping(cs, calc, s) ==
    IF s \notin DOMAIN cs THEN 0
    ELSE LET items == cs[s].items
         IN  Max(0, ApplyCalculator(calc, SumAmounts(items), Len(items), items))

(***************************************************************************)
(* Summaries: CartService._get_cart_summary and the "Cart is empty" dict   *)
(***************************************************************************)
\* The loop "if 'amount' in item: subtotal += item['amount']".
RECURSIVE Subtotal(_)
Subtotal(items) ==
    IF items = <<>> THEN 0
    ELSE IF Head(items).amount # None
         THEN Head(items).amount[1] + Subtotal(Tail(items))
         ELSE Subtotal(Tail(items))

\* Variant: the total built from the fee stored in the cart dict.
GetCartSummaryStoredFee(cs, calc, s) ==
    LET items == IF s \in DOMAIN cs THEN cs[s].items ELSE <<>>
        subtotal == Subtotal(items)
        shipping_fee == RecalculateShipping(cs, calc, s)
        stored == IF s \in DOMAIN cs THEN cs[s].shipping_fee ELSE 0
    IN  [session_id |-> s,
         items |-> items,
         item_count |-> Len(items),
         subtotal |-> subtotal,
         shipping_fee |-> shipping_fee,
         total_amount |-> subtotal + stored,
         updated_at |-> IF s \in DOMAIN cs THEN Some(cs[s].updated_at) ELSE None]

GetCartSummary(cs, calc, s) ==
    LET items == IF s \in DOMAIN cs THEN cs[s].items ELSE <<>>
        subtotal == Subtotal(items)
        shipping_fee == RecalculateShipping(cs, calc, s)
    IN  [session_id |-> s,
         items |-> items,
         item_count |-> Len(items),
         subtotal |-> subtotal,
         shipping_fee |-> shipping_fee,
         total_amount |-> subtotal + shipping_fee,
         updated_at |-> IF s \in DOMAIN cs THEN Some(cs[s].updated_at) ELSE None]

EmptyCartReply(s) ==
    [session_id |-> s, items |-> <<>>, item_count |-> 0,
     message |-> "Cart is empty"]

(***************************************************************************)
(* Cart operations: add_to_cart, view_cart, remove_from_cart               *)
(***************************************************************************)
\* What a store method hands back: the store after the call, the clock after
\* the call, the exception raised ("" when none) and the returned dict.
Outcome(cs, t, err, ret) == [carts |-> cs, now |-> t, error |-> err, ret |-> ret]

\* The cart created on a session's first add (two datetime.now() calls).
NewCart(s, t) ==
    [session_id |-> s, items |-> <<>>, shipping_fee |-> 0,
     created_at |-> t + 1, updated_at |-> t + 2]

\* Variant: only the first item of the cart is compared.
FindExistingFirstOnly(items, p, v) ==
    IF /\ items # <<>>
       /\ items[1].product_id = p
       /\ VariationsMatch(items[1].variations, v)
    THEN 1 ELSE 0

\* Index of the first item with this product_id whose variations match, or 0.
FindExisting(items, p, v) ==
    LET hits == {i \in 1..Len(items) :
                    /\ items[i].product_id = p
                    /\ VariationsMatch(items[i].variations, v)}
    IN  IF hits = {} THEN 0
        ELSE CHOOSE i \in hits : \A j \in hits : i <= j

\* Variant: the quantity raised and the amount left as it was.
MergeQuantityStaleAmount(item, q) ==
    [item EXCEPT !.quantity = item.quantity + q]

\* Variant: the quantity assigned instead of added.
MergeQuantityOverwrite(item, q) ==
    [item EXCEPT !.quantity = q,
                 !.amount = IF item.unit_price # None
                            THEN Some(item.unit_price[1] * q)
                            ELSE item.amount]

\* existing_item["quantity"] += quantity, and the amount when a price is known.
MergeQuantity(item, q) ==
    LET qty == item.quantity + q
    IN  [item EXCEPT !.quantity = qty,
                     !.amount = IF item.unit_price # None
                                THEN Some(item.unit_price[1] * qty)
                                ELSE item.amount]

NewItem(p, q, v, up) ==
    [product_id |-> p, quantity |-> q, variations |-> v,
     unit_price |-> up,
     amount |-> IF up # None THEN Some(up[1] * q) ELSE None]

\* Variant: the cart is initialised before the quantity is checked.
AddToCartLateCheck(cs, t, calc, s, p, q, v, up) ==
    LET created == s \notin DOMAIN cs
        cart0 == IF created THEN NewCart(s, t) ELSE cs[s]
        t1 == IF created THEN t + 2 ELSE t
        idx == FindExisting(cart0.items, p, v)
        items1 == IF idx # 0
                  THEN [cart0.items EXCEPT ![idx] = MergeQuantity(@, q)]
                  ELSE Append(cart0.items, NewItem(p, q, v, up))
        cart1 == [cart0 EXCEPT !.items = items1, !.updated_at = t1 + 1]
        cs1 == (s :> cart1) @@ cs
    IN  IF q <= 0 THEN Outcome((s :> cart0) @@ cs, t1, "ValueError", None)
        ELSE Outcome(cs1, t1 + 1, "", Some(GetCartSummary(cs1, calc, s)))

\* Variant: updated_at refreshed on every cart of the store.
AddToCartTouchesAll(cs, t, calc, s, p, q, v, up) ==
    IF q <= 0 THEN Outcome(cs, t, "ValueError", None)
    ELSE LET created == s \notin DOMAIN cs
             cart0 == IF created THEN NewCart(s, t) ELSE cs[s]
             t1 == IF created THEN t + 2 ELSE t
             idx == FindExisting(cart0.items, p, v)
             items1 == IF idx # 0
                       THEN [cart0.items EXCEPT ![idx] = MergeQuantity(@, q)]
                       ELSE Append(cart0.items, NewItem(p, q, v, up))
             cart1 == [cart0 EXCEPT !.items = items1]
             cs0 == (s :> cart1) @@ cs
             cs1 == [x \in DOMAIN cs0 |-> [cs0[x] EXCEPT !.updated_at = t1 + 1]]
         IN  Outcome(cs1, t1 + 1, "", Some(GetCartSummary(cs1, calc, s)))

\* Variant: a merge takes the unit price that the add passes.
AddToCartMergeTakesPrice(cs, t, calc, s, p, q, v, up) ==
    IF q <= 0 THEN Outcome(cs, t, "ValueError", None)
    ELSE LET created == s \notin DOMAIN cs
             cart0 == IF created THEN NewCart(s, t) ELSE cs[s]
             t1 == IF created THEN t + 2 ELSE t
             idx == FindExisting(cart0.items, p, v)
             items1 == IF idx # 0
                       THEN [cart0.items EXCEPT
                               ![idx] = NewItem(p, @.quantity + q, @.variations, up)]
                       ELSE Append(cart0.items, NewItem(p, q, v, up))
             cart1 == [cart0 EXCEPT !.items = items1, !.updated_at = t1 + 1]
             cs1 == (s :> cart1) @@ cs
         IN  Outcome(cs1, t1 + 1, "", Some(GetCartSummary(cs1, calc, s)))

AddToCart(cs, t, calc, s, p, q, v, up) ==
    IF q <= 0 THEN Outcome(cs, t, "ValueError", None)
    ELSE LET created == s \notin DOMAIN cs
             cart0 == IF created THEN NewCart(s, t) ELSE cs[s]
             t1 == IF created THEN t + 2 ELSE t
             idx == FindExisting(cart0.items, p, v)
             items1 == IF idx # 0
                       THEN [cart0.items EXCEPT ![idx] = MergeQuantity(@, q)]
                       ELSE Append(cart0.items, NewItem(p, q, v, up))
             cart1 == [cart0 EXCEPT !.items = items1, !.updated_at = t1 + 1]
             cs1 == (s :> cart1) @@ cs
         IN  Outcome(cs1, t1 + 1, "", Some(GetCartSummary(cs1, calc, s)))

\* Variant: a missing cart is created by the lookup.
ViewCartCreates(cs, t, calc, s) ==
    IF s \notin DOMAIN cs
    THEN Outcome((s :> NewCart(s, t)) @@ cs, t + 2, "", Some(EmptyCartReply(s)))
    ELSE Outcome(cs, t, "", Some(GetCartSummary(cs, calc, s)))

\* Variant: a cart without items is answered like a missing cart.
ViewCartEmptyAsMissing(cs, t, calc, s) ==
    IF s \notin DOMAIN cs \/ cs[s].items = <<>>
    THEN Outcome(cs, t, "", Some(EmptyCartReply(s)))
    ELSE Outcome(cs, t, "", Some(GetCartSummary(cs, calc, s)))

ViewCart(cs, t, calc, s) ==
    IF s \notin DOMAIN cs THEN Outcome(cs, t, "", Some(EmptyCartReply(s)))
    ELSE Outcome(cs, t, "", Some(GetCartSummary(cs, calc, s)))

\* Variant: every item of the product is dropped, whatever its variations.
KeptItemsByProduct(items, p, v) ==
    SelectSeq(items, LAMBDA it : ~(it.product_id = p))

\* The list comprehension of remove_from_cart: the items that stay.
KeptItems(items, p, v) ==
    SelectSeq(items, LAMBDA it :
        ~(it.product_id = p /\ VariationsMatch(it.variations, v)))

\* Variant: a cart left without items is deleted from the store.
RemoveFromCartDropsEmptied(cs, t, calc, s, p, v) ==
    IF s \notin DOMAIN cs THEN Outcome(cs, t, "", Some(EmptyCartReply(s)))
    ELSE LET cart == cs[s]
             kept == KeptItems(cart.items, p, v)
             removed_count == Len(cart.items) - Len(kept)
             cart1 == IF removed_count > 0
                      THEN [cart EXCEPT !.items = kept, !.updated_at = t + 1]
                      ELSE [cart EXCEPT !.items = kept]
             t1 == IF removed_count > 0 THEN t + 1 ELSE t
             cs1 == (s :> cart1) @@ cs
             cs2 == IF kept = <<>>
                    THEN [x \in DOMAIN cs1 \ {s} |-> cs1[x]]
                    ELSE cs1
         IN  Outcome(cs2, t1, "", Some(GetCartSummary(cs1, calc, s)))

\* Variant: updated_at refreshed whether or not anything was removed.
RemoveFromCartAlwaysTouches(cs, t, calc, s, p, v) ==
    IF s \notin DOMAIN cs THEN Outcome(cs, t, "", Some(EmptyCartReply(s)))
    ELSE LET cart == cs[s]
             kept == KeptItems(cart.items, p, v)
             cart1 == [cart EXCEPT !.items = kept, !.updated_at = t + 1]
             cs1 == (s :> cart1) @@ cs
         IN  Outcome(cs1, t + 1, "", Some(GetCartSummary(cs1, calc, s)))

RemoveFromCart(cs, t, calc, s, p, v) ==
    IF s \notin DOMAIN cs THEN Outcome(cs, t, "", Some(EmptyCartReply(s)))
    ELSE LET cart == cs[s]
             kept == KeptItems(cart.items, p, v)
             removed_count == Len(cart.items) - Len(kept)
             cart1 == IF removed_count > 0
                      THEN [cart EXCEPT !.items = kept, !.updated_at = t + 1]
                      ELSE [cart EXCEPT !.items = kept]
             t1 == IF removed_count > 0 THEN t + 1 ELSE t
             cs1 == (s :> cart1) @@ cs
         IN  Outcome(cs1, t1, "", Some(GetCartSummary(cs1, calc, s)))

(***************************************************************************)
(* The store as a state machine                                            *)
(***************************************************************************)
Call(op, s, p, q, v, up, out) ==
    [op |-> op, session_id |-> s, product_id |-> p, quantity |-> q,
     variations |-> v, unit_price |-> up, error |-> out.error, ret |-> out.ret]

NoCall ==
    [op |-> "none", session_id |-> "", product_id |-> "", quantity |-> 0,
     variations |-> <<>>, unit_price |-> None, error |-> "", ret |-> None]

\* The add_to_cart tool invocations that may run at once.
Invocations == {1, 2}

IdleInvocation ==
    [pc |-> "idle", session_id |-> "", product_id |-> "", quantity |-> 0,
     variations |-> <<>>, begun_at |-> 0, resumed_under |-> "", result |-> ""]

NoInvocations == [i \in Invocations |-> IdleInvocation]

\* What one call of a MerchantTools method has done so far: the callbacks it
\* invoked with their arguments, what they gave back, the local variables of
\* calculate_total and, once the call is over, what it raised or returned.
NoMerchantCall ==
    [op |-> "", pc |-> "idle", items |-> <<>>, customer_id |-> None,
     lookups |-> <<>>, order_calls |-> <<>>, results |-> <<>>,
     order_items |-> <<>>, total_amount |-> 0, outcome |-> None]

\* The store, the session id and the tools right after construction.
InitProgram ==
    /\ carts = [s \in {} |-> s]
    /\ shipping_calculator = "default"
    /\ now = 0
    /\ nops = 0
    /\ last = NoCall
    /\ current_session_id = None
    /\ inv = NoInvocations
    /\ mt = NoMerchantCall

Init ==
    /\ InitProgram
    /\ fn_in = <<>>
    /\ fn_out = <<>>

Add(s, p, q, v, up) ==
    /\ LET out == AddToCart(carts, now, shipping_calculator, s, p, q, v, up)
       IN  /\ carts' = out.carts
           /\ now' = out.now
           /\ last' = Call("add", s, p, q, v, up, out)
    /\ nops' = nops + 1
    /\ UNCHANGED <<shipping_calculator, current_session_id, inv, mt, fn_in, fn_out>>

View(s) ==
    /\ LET out == ViewCart(carts, now, shipping_calculator, s)
       IN  /\ carts' = out.carts
           /\ now' = out.now
           /\ last' = Call("view", s, "", 0, <<>>, None, out)
    /\ nops' = nops + 1
    /\ UNCHANGED <<shipping_calculator, current_session_id, inv, mt, fn_in, fn_out>>

Remove(s, p, v) ==
    /\ LET out == RemoveFromCart(carts, now, shipping_calculator, s, p, v)
       IN  /\ carts' = out.carts
           /\ now' = out.now
           /\ last' = Call("remove", s, p, 0, v, None, out)
    /\ nops' = nops + 1
    /\ UNCHANGED <<shipping_calculator, current_session_id, inv, mt, fn_in, fn_out>>

SetShippingCalculator(calc) ==
    /\ shipping_calculator' = calc
    /\ last' = [NoCall EXCEPT !.op = "set_shipping_calculator"]
    /\ nops' = nops + 1
    /\ UNCHANGED <<carts, now, current_session_id, inv, mt, fn_in, fn_out>>

\* The callers of the store: every operation on every session, while the
\* budget of operations lasts.
AddStep ==
    /\ nops < MaxOps
    /\ \E s \in Sessions, l \in Lines, q \in QtyInputs, up \in PriceInputs :
          Add(s, l[1], q, l[2], up)

BadAddStep ==
    /\ nops < MaxOps
    /\ \E s \in Sessions, q \in BadQtyInputs : Add(s, "p1", q, <<>>, None)

ViewStep ==
    /\ nops < MaxOps
    /\ \E s \in Sessions : View(s)

RemoveStep ==
    /\ nops < MaxOps
    /\ \E s \in Sessions, l \in Lines : Remove(s, l[1], l[2])

SetShippingCalculatorStep ==
    /\ nops < MaxOps
    /\ \E calc \in Calculators : SetShippingCalculator(calc)

Next ==
    \/ AddStep
    \/ BadAddStep
    \/ ViewStep
    \/ RemoveStep
    \/ SetShippingCalculatorStep

Spec == Init /\ [][Next]_vars

(***************************************************************************)
(* One session filled and emptied line by line: fewer inputs, longer runs  *)
(***************************************************************************)
DeepAddStep ==
    /\ nops < MaxDeepOps
    /\ \E l \in Lines, q \in QtyInputs : Add("s1", l[1], q, l[2], Some(2500))

DeepRemoveStep ==
    /\ nops < MaxDeepOps
    /\ \E l \in Lines : Remove("s1", l[1], l[2])

NextDeep ==
    \/ DeepAddStep
    \/ DeepRemoveStep

SpecDeep == Init /\ [][NextDeep]_vars

(***************************************************************************)
(* The pricing boundary: MerchantTools.calculate_total                     *)
(***************************************************************************)
\* A raw product dict as the merchant's get_products returns it; the key
\* stock_level may be absent.
RawProduct(id, name, base_price, stock_level, variations) ==
    [id |-> id, name |-> name, base_price |-> base_price,
     stock_level |-> stock_level, variations |-> variations]

CatalogProduct(p) ==
    IF p = "p1"
    THEN RawProduct("p1", "Shirt", 2000, Some(5),
                    <<VarPM("color", "red", 350), VarPM("size", "L", 0),
                      VarPM("size", "XL", 150)>>)
    ELSE RawProduct(p, "Mug", 1000, Some(5), <<>>)

\* What awaiting get_products(...) may give: an exception, something that is
\* not a list (None), or a list of raw product dicts.
LookupRaised == [raised |-> TRUE, is_list |-> FALSE, products |-> <<>>]
LookupReturnedNone == [raised |-> FALSE, is_list |-> FALSE, products |-> <<>>]
LookupReturned(products) ==
    [raised |-> FALSE, is_list |-> TRUE, products |-> products]

\* The lookups of a merchant that keeps to its contract: an exception, no
\* product, or the product asked for.
LookupResults(p) ==
    {LookupRaised, LookupReturned(<<>>), LookupReturned(<<CatalogProduct(p)>>)}

\* The modifier of the first catalog entry with the selected (type, name),
\* 0 when there is none.
\* Variant: a catalog entry of the selected type matches, whatever its name.
RECURSIVE FirstModifierByType(_, _)
FirstModifierByType(catalog, selected_var) ==
    IF catalog = <<>> THEN 0
    ELSE IF Head(catalog).type = selected_var.type
         THEN Head(catalog).price_modifier[1]
         ELSE FirstModifierByType(Tail(catalog), selected_var)

\* Variant: the loop over the catalog goes on after a match (no break).
RECURSIVE FirstModifierNoBreak(_, _)
FirstModifierNoBreak(catalog, selected_var) ==
    IF catalog = <<>> THEN 0
    ELSE (IF /\ Head(catalog).type = selected_var.type
             /\ Head(catalog).name = selected_var.name
          THEN Head(catalog).price_modifier[1]
          ELSE 0)
         + FirstModifierNoBreak(Tail(catalog), selected_var)

RECURSIVE FirstModifier(_, _)
FirstModifier(catalog, selected_var) ==
    IF catalog = <<>> THEN 0
    ELSE IF /\ Head(catalog).type = selected_var.type
            /\ Head(catalog).name = selected_var.name
         THEN Head(catalog).price_modifier[1]
         ELSE FirstModifier(Tail(catalog), selected_var)

RECURSIVE SumModifiers(_, _)
SumModifiers(catalog, selected) ==
    IF selected = <<>> THEN 0
    ELSE FirstModifier(catalog, Head(selected))
         + SumModifiers(catalog, Tail(selected))

ItemPrice(product, selected) ==
    IF selected # <<>> /\ product.variations # <<>>
    THEN product.base_price + SumModifiers(product.variations, selected)
    ELSE product.base_price

\* The unit price add_to_cart takes from calculate_total for one line: 0.0
\* when the lookup raised or found nothing.
PreviewUnitPrice(res, selected) ==
    IF res.raised \/ res.products = <<>> THEN 0
    ELSE ItemPrice(res.products[1], selected)

(***************************************************************************)
(* The add_to_cart tool: client_tool/tools.py                              *)
(***************************************************************************)
GetSessionId ==
    IF current_session_id = None THEN "default_session"
    ELSE current_session_id[1]

SetSessionId(s) ==
    /\ current_session_id # Some(s)
    /\ current_session_id' = Some(s)
    /\ UNCHANGED <<carts, shipping_calculator, now, nops, last, inv, mt, fn_in, fn_out>>

\* The call cart_service.add_to_cart(...) of invocation i and its reply;
\* resumed_under keeps what get_session_id() returns at the time of the call.
ToolCallsStore(i, sid, p, q, v, up, begun) ==
    LET out == AddToCart(carts, now, shipping_calculator, sid, p, q, v, up)
    IN  /\ carts' = out.carts
        /\ now' = out.now
        /\ last' = Call("add", sid, p, q, v, up, out)
        /\ nops' = nops + 1
        /\ inv' = [inv EXCEPT ![i] =
                     [pc |-> "done", session_id |-> sid, product_id |-> p,
                      quantity |-> q, variations |-> v, begun_at |-> begun,
                      resumed_under |-> GetSessionId,
                      result |-> IF out.error = "" THEN "added" ELSE "failed"]]

\* An invocation that is given its unit price: it runs to its end at once.
ToolAddPriced(i, p, q, v, up) ==
    /\ inv[i].pc = "idle"
    /\ up # None
    /\ ToolCallsStore(i, GetSessionId, p, q, v, up, nops)
    /\ UNCHANGED <<shipping_calculator, current_session_id, mt, fn_in, fn_out>>

\* An invocation without a unit price: it reads the session id and suspends
\* in calculate_total, awaiting get_products.
ToolAddBegin(i, p, q, v) ==
    /\ inv[i].pc = "idle"
    /\ inv' = [inv EXCEPT ![i] =
                 [pc |-> "awaiting", session_id |-> GetSessionId,
                  product_id |-> p, quantity |-> q, variations |-> v,
                  begun_at |-> nops, resumed_under |-> "", result |-> ""]]
    /\ UNCHANGED <<carts, shipping_calculator, now, nops, last,
                   current_session_id, mt, fn_in, fn_out>>

\* Variant: the session id is read again when the invocation resumes.
LookupReturnRereadsSession(i, res) ==
    /\ inv[i].pc = "awaiting"
    /\ ToolCallsStore(i, GetSessionId, inv[i].product_id, inv[i].quantity,
                      inv[i].variations,
                      Some(PreviewUnitPrice(res, inv[i].variations)),
                      inv[i].begun_at)
    /\ UNCHANGED <<shipping_calculator, current_session_id, mt, fn_in, fn_out>>

\* get_products returns (or raises): the invocation resumes, takes the unit
\* price and calls the store, all without suspending again.
LookupReturn(i, res) ==
    /\ inv[i].pc = "awaiting"
    /\ ToolCallsStore(i, inv[i].session_id, inv[i].product_id, inv[i].quantity,
                      inv[i].variations,
                      Some(PreviewUnitPrice(res, inv[i].variations)),
                      inv[i].begun_at)
    /\ UNCHANGED <<shipping_calculator, current_session_id, mt, fn_in, fn_out>>

ToolQtyInputs == {0, 1, 2}

ToolAddPricedStep ==
    \E i \in Invocations, l \in Lines, q \in ToolQtyInputs :
        ToolAddPriced(i, l[1], q, l[2], Some(2500))

ToolAddBeginStep ==
    \E i \in Invocations, l \in Lines, q \in ToolQtyInputs :
        ToolAddBegin(i, l[1], q, l[2])

LookupReturnStep ==
    \E i \in Invocations :
        \E res \in LookupResults(inv[i].product_id) : LookupReturn(i, res)

SetSessionIdStep == \E s \in Sessions : SetSessionId(s)

NextTool ==
    \/ ToolAddPricedStep
    \/ ToolAddBeginStep
    \/ LookupReturnStep
    \/ SetSessionIdStep

SpecTool == Init /\ [][NextTool]_vars

(***************************************************************************)
(* The variation matcher on its own, applied to drawn pairs of lists        *)
(***************************************************************************)
\* Variation dicts as callers may pass them: with or without a further key.
MatchElems == {ColorRed, VarPM("color", "red", 350), SizeL}

SeqsUpTo(S, n) == UNION {[1..k -> S] : k \in 0..n}

MatchLists == SeqsUpTo(MatchElems, MaxMatchLen)

InitMatch ==
    /\ InitProgram
    /\ fn_in \in MatchLists \X MatchLists
    /\ fn_out = <<>>

ApplyVariationsMatch ==
    /\ fn_out = <<>>
    /\ fn_out' = <<VariationsMatch(fn_in[1], fn_in[2])>>
    /\ UNCHANGED <<carts, shipping_calculator, now, nops, last,
                   current_session_id, inv, mt, fn_in>>

NextMatch == ApplyVariationsMatch

SpecMatch == InitMatch /\ [][NextMatch]_vars

(***************************************************************************)
(* The default shipping policy on its own, applied to drawn arguments       *)
(***************************************************************************)
\* Subtotals in cents, on both sides of the free-shipping threshold.
ShippingSubtotals == {0, 999, 1000, 2500, 4998, 4999, 5000, 5001, 7500, 10000}

InitShipping ==
    /\ InitProgram
    /\ fn_in \in ShippingSubtotals \X (0..MaxItemCount)
    /\ fn_out = <<>>

ApplyDefaultShippingCalculator ==
    /\ fn_out = <<>>
    /\ fn_out' = <<DefaultShippingCalculator(fn_in[1], fn_in[2], <<>>)>>
    /\ UNCHANGED <<carts, shipping_calculator, now, nops, last,
                   current_session_id, inv, mt, fn_in>>

NextShipping == ApplyDefaultShippingCalculator

SpecShipping == InitShipping /\ [][NextShipping]_vars

(***************************************************************************)
(* Python values of a payload.  A dict of the model is a record; a key it  *)
(* lacks is absent from the dict.  A value is of the type its key usually  *)
(* holds unless the record's "types" says otherwise:                       *)
(*   "str"       a string; one put where a number is expected is kept as   *)
(*               the sequence of its characters, under the key in the      *)
(*               record's "texts"                                          *)
(*   "int"       an integer                                                *)
(*   "float"     a finite float, kept in hundredths                        *)
(*   "nan"       the float NaN                                             *)
(*   "inf"       the float infinity                                        *)
(*   "NoneType"  None                                                      *)
(*   "list"      a list, a sequence of the model                           *)
(* The record's own field of a key that holds a value of another type than *)
(* usual is not read.  A value that should be a dict and is not one is the *)
(* record whose "types" gives the type of the value itself under "self".   *)
(***************************************************************************)
TypeOf(d, key, usual) ==
    IF "types" \in DOMAIN d /\ key \in DOMAIN d.types
    THEN d.types[key] ELSE usual

\* The dict d with d[key] = value, a value of the given type.
WithKey(d, key, type, value) ==
    LET types == IF "types" \in DOMAIN d
                 THEN (key :> type) @@ d.types ELSE (key :> type)
    IN  [k \in DOMAIN d \cup {key, "types"} |->
            IF k = "types" THEN types ELSE IF k = key THEN value ELSE d[k]]

\* The dict d with d[key] = the string of these characters, where a number
\* is expected.
WithText(d, key, chars) ==
    LET typed == WithKey(d, key, "str", d[key])
        texts == IF "texts" \in DOMAIN d
                 THEN (key :> chars) @@ d.texts ELSE (key :> chars)
    IN  [k \in DOMAIN typed \cup {"texts"} |->
            IF k = "texts" THEN texts ELSE typed[k]]

\* The dict d without the key.
WithoutKey(d, key) == [k \in DOMAIN d \ {key} |-> d[k]]

Digits == <<"0", "1", "2", "3", "4", "5", "6", "7", "8", "9">>

DigitValue(c) == (CHOOSE n \in 1..Len(Digits) : Digits[n] = c) - 1

AllDigits(chars) ==
    \A i \in 1..Len(chars) : \E n \in 1..Len(Digits) : Digits[n] = chars[i]

RECURSIVE DigitsValue(_)
DigitsValue(chars) ==
    IF chars = <<>> THEN 0
    ELSE DigitsValue(SubSeq(chars, 1, Len(chars) - 1)) * 10
         + DigitValue(chars[Len(chars)])

\* A leading sign taken off a numeral.
Unsigned(chars) ==
    IF chars # <<>> /\ Head(chars) \in {"-", "+"} THEN Tail(chars) ELSE chars

Signed(chars, n) == IF chars # <<>> /\ Head(chars) = "-" THEN 0 - n ELSE n

\* What a conversion gives: a number, NaN, infinity, the ValueError /
\* TypeError that the validators catch (ok is FALSE, raises is ""), or the
\* OverflowError of int(float("inf")), which they do not catch.
Number(n) ==
    [ok |-> TRUE, nan |-> FALSE, inf |-> FALSE, value |-> n, raises |-> ""]
NaN == [Number(0) EXCEPT !.nan = TRUE]
Infinity == [Number(0) EXCEPT !.inf = TRUE]
NotANumber == [Number(0) EXCEPT !.ok = FALSE]
Overflow ==
    [NotANumber EXCEPT
       !.raises = "OverflowError: cannot convert float infinity to integer"]

\* int(str): an optional sign and decimal digits, nothing else.
ParseInt(chars) ==
    LET body == Unsigned(chars)
    IN  IF body # <<>> /\ AllDigits(body)
        THEN Number(Signed(chars, DigitsValue(body)))
        ELSE NotANumber

\* float(str): "nan", or an optional sign, digits and at most one point with
\* a digit on one side of it at least; of the digits after the point the
\* first two make the hundredths.
ParseFloat(chars) ==
    LET body == Unsigned(chars)
        points == {i \in 1..Len(body) : body[i] = "."}
        point == IF points = {} THEN Len(body) + 1
                 ELSE CHOOSE i \in points : \A j \in points : i <= j
        whole == SubSeq(body, 1, point - 1)
        frac == SubSeq(body, point + 1, Len(body))
        hundredths == IF Len(frac) = 0 THEN 0
                      ELSE IF Len(frac) = 1 THEN DigitValue(frac[1]) * 10
                      ELSE DigitValue(frac[1]) * 10 + DigitValue(frac[2])
    IN  IF body = <<"n", "a", "n">> THEN NaN
        ELSE IF AllDigits(whole) /\ AllDigits(frac) /\ Len(whole) + Len(frac) > 0
        THEN Number(Signed(chars, DigitsValue(whole) * 100 + hundredths))
        ELSE NotANumber

\* float(d[key]), in hundredths; value is the number under the key.
ToFloat(d, key, value) ==
    LET type == TypeOf(d, key, "float")
    IN  IF type = "float" THEN Number(value)
        ELSE IF type = "int" THEN Number(value * 100)
        ELSE IF type = "nan" THEN NaN
        ELSE IF type = "inf" THEN Infinity
        ELSE IF type = "str" THEN ParseFloat(d.texts[key])
        ELSE NotANumber

\* int(value): a float is cut off towards zero, NaN has no integer
\* (ValueError) and neither has infinity (OverflowError).
ToInt(d, key, value) ==
    LET type == TypeOf(d, key, "int")
    IN  IF type = "int" THEN Number(value)
        ELSE IF type = "float"
        THEN Number(IF value >= 0 THEN value \div 100
                    ELSE 0 - ((0 - value) \div 100))
        ELSE IF type = "inf" THEN Overflow
        ELSE IF type = "str" THEN ParseInt(d.texts[key])
        ELSE NotANumber

\* x < y as Python compares floats: never true of NaN, nor of infinity.
Less(x, y) == ~x.nan /\ ~x.inf /\ x.value < y

\* The string of the characters, as an f-string shows it.
RECURSIVE Joined(_)
Joined(chars) == IF chars = <<>> THEN "" ELSE Head(chars) \o Joined(Tail(chars))


(***************************************************************************)
(* Schema validation: SchemaValidator.  Each validator gives the error     *)
(* text, "" when the value is valid.  The strings of the model hold no     *)
(* blanks, so "non-empty after strip()" is "not the empty string".  When   *)
(* a validator does not return, because int() raised an OverflowError that *)
(* no except clause catches, it gives the text of that exception, which    *)
(* leaves the validator that called it unchanged.  The items and orders    *)
(* that MerchantTools validates in the model hold finite numbers.          *)
(***************************************************************************)
\* A set of missing keys as the f-string shows it.  Python lists a larger
\* set in an order that depends on the hash seed; one of its keys is shown.
SetShown(keys) == "{'" \o (CHOOSE k \in keys : TRUE) \o "'}"

\* required - set(d.keys()): the keys of plain the dict lacks, and those of
\* optional whose optional value is absent.
Missing(d, plain, optional) ==
    {k \in plain : k \notin DOMAIN d}
    \cup {k \in optional : k \notin DOMAIN d \/ d[k] = None}

\* isinstance(d[key], str) and d[key].strip()
NonEmptyString(d, key) == TypeOf(d, key, "str") = "str" /\ d[key] # ""

\* The loop over product["variations"].
RECURSIVE ValidateCatalog(_, _)
ValidateCatalog(variations, idx) ==
    IF variations = <<>> THEN ""
    ELSE LET var == Head(variations)
             var_missing == Missing(var, {"type", "name"}, {"price_modifier"})
             at == "variation[" \o ToString(idx) \o "]"
         IN  IF TypeOf(var, "self", "dict") # "dict"
             THEN at \o " must be dict"
             ELSE IF var_missing # {}
             THEN at \o " missing: " \o SetShown(var_missing)
             ELSE IF ~NonEmptyString(var, "type")
             THEN at \o "['type'] must be non-empty string"
             ELSE IF ~NonEmptyString(var, "name")
             THEN at \o "['name'] must be non-empty string"
             ELSE IF ~ToFloat(var, "price_modifier", var.price_modifier[1]).ok
             THEN at \o "['price_modifier'] must be numeric"
             ELSE ValidateCatalog(Tail(variations), idx + 1)

\* The try block around float(product["base_price"]); float() fails on a
\* string that is no numeral and on None.
ValidateBasePrice(product) ==
    LET base_price == ToFloat(product, "base_price", product.base_price)
    IN  IF ~base_price.ok
        THEN "product['base_price'] must be numeric, got "
             \o (IF TypeOf(product, "base_price", "float") = "str"
                 THEN Joined(product.texts.base_price) ELSE "None")
        ELSE IF Less(base_price, 0) THEN "product['base_price'] must be >= 0"
        ELSE ""

\* Variant: a description of None is let through, as an image of None is.
ValidateOptionalKeysNullDescription(product) ==
    IF "description" \in DOMAIN product
       /\ TypeOf(product, "description", "str") \notin {"NoneType", "str"}
    THEN "product['description'] must be string"
    ELSE IF "image" \in DOMAIN product
            /\ TypeOf(product, "image", "str") \notin {"NoneType", "str"}
    THEN "product['image'] must be string or null"
    ELSE IF "variations" \notin DOMAIN product
            \/ TypeOf(product, "variations", "list") = "NoneType"
    THEN ""
    ELSE IF TypeOf(product, "variations", "list") # "list"
    THEN "product['variations'] must be list or null"
    ELSE ValidateCatalog(product.variations, 0)

\* The checks of description, image and variations, the optional keys.
ValidateOptionalKeys(product) ==
    IF "description" \in DOMAIN product
       /\ TypeOf(product, "description", "str") # "str"
    THEN "product['description'] must be string"
    ELSE IF "image" \in DOMAIN product
            /\ TypeOf(product, "image", "str") \notin {"NoneType", "str"}
    THEN "product['image'] must be string or null"
    ELSE IF "variations" \notin DOMAIN product
            \/ TypeOf(product, "variations", "list") = "NoneType"
    THEN ""
    ELSE IF TypeOf(product, "variations", "list") # "list"
    THEN "product['variations'] must be list or null"
    ELSE ValidateCatalog(product.variations, 0)

ValidateProduct(product) ==
    LET missing == Missing(product, {"id", "name", "base_price"},
                           {"stock_level"})
    IN  IF TypeOf(product, "self", "dict") # "dict"
        THEN "Product must be dict, got " \o TypeOf(product, "self", "dict")
        ELSE IF missing # {} THEN "Product missing: " \o SetShown(missing)
        ELSE IF ~NonEmptyString(product, "id")
        THEN "product['id'] must be non-empty string"
        ELSE IF ~NonEmptyString(product, "name")
        THEN "product['name'] must be non-empty string"
        ELSE IF ValidateBasePrice(product) # ""
        THEN ValidateBasePrice(product)
        ELSE IF TypeOf(product, "stock_level", "int") # "int"
        THEN "product['stock_level'] must be int"
        ELSE IF product.stock_level[1] < 0
        THEN "product['stock_level'] must be >= 0"
        ELSE ValidateOptionalKeys(product)

\* Variant: the list is gone through from its end.
RECURSIVE ValidateProductsFromEnd(_, _)
ValidateProductsFromEnd(products, i) ==
    IF products = <<>> THEN ""
    ELSE LET k == Len(products)
             error == ValidateProduct(products[k])
         IN  IF error # ""
             THEN "Product[" \o ToString(i + k - 1) \o "]: " \o error
             ELSE ValidateProductsFromEnd(SubSeq(products, 1, k - 1), i)

\* The loop of validate_products_list: the error of the first faulty product.
RECURSIVE ValidateProducts(_, _)
ValidateProducts(products, i) ==
    IF products = <<>> THEN ""
    ELSE LET error == ValidateProduct(Head(products))
         IN  IF error # ""
             THEN "Product[" \o ToString(i) \o "]: " \o error
             ELSE ValidateProducts(Tail(products), i + 1)

ValidateProductsList(res) ==
    IF ~res.is_list THEN "Must return list, got NoneType"
    ELSE ValidateProducts(res.products, 0)

\* A raw order item dict: the keys quantity, unit_price and variations may be
\* absent.
RawOrderItem(product_id, quantity, unit_price, variations) ==
    [product_id |-> product_id, quantity |-> quantity,
     unit_price |-> unit_price, variations |-> variations]

\* The loop over item["variations"].
RECURSIVE ValidateSelected(_, _)
ValidateSelected(variations, idx) ==
    IF variations = <<>> THEN ""
    ELSE LET var == Head(variations)
             at == "item variation[" \o ToString(idx) \o "]"
         IN  IF TypeOf(var, "self", "dict") # "dict"
             THEN at \o " must be dict"
             ELSE IF "type" \notin DOMAIN var \/ "name" \notin DOMAIN var
             THEN at \o " must have 'type' and 'name'"
             ELSE IF TypeOf(var, "type", "str") # "str"
                     \/ TypeOf(var, "name", "str") # "str"
             THEN at \o " type/name must be strings"
             ELSE ValidateSelected(Tail(variations), idx + 1)

ValidateOrderItem(item) ==
    LET missing == Missing(item, {"product_id"}, {"quantity"})
        qty == ToInt(item, "quantity", item.quantity[1])
    IN  IF TypeOf(item, "self", "dict") # "dict"
        THEN "Order item must be dict, got " \o TypeOf(item, "self", "dict")
        ELSE IF missing # {} THEN "Order item missing: " \o SetShown(missing)
        ELSE IF ~NonEmptyString(item, "product_id")
        THEN "item['product_id'] must be non-empty string"
        ELSE IF qty.raises # "" THEN qty.raises
        ELSE IF ~qty.ok THEN "item['quantity'] must be integer"
        ELSE IF qty.value <= 0 THEN "item['quantity'] must be > 0"
        ELSE IF "variations" \notin DOMAIN item \/ item.variations = None
                \/ TypeOf(item, "variations", "list") = "NoneType"
        THEN ""
        ELSE IF TypeOf(item, "variations", "list") # "list"
        THEN "item['variations'] must be list or null"
        ELSE ValidateSelected(item.variations[1], 0)

\* The loop of validate_order_dict over order["items"].
RECURSIVE ValidateOrderItems(_, _)
ValidateOrderItems(items, i) ==
    IF items = <<>> THEN ""
    ELSE LET error == ValidateOrderItem(Head(items))
         IN  IF error = Overflow.raises THEN error
             ELSE IF error # ""
             THEN "Item[" \o ToString(i) \o "]: " \o error
             ELSE ValidateOrderItems(Tail(items), i + 1)

\* A raw order dict as process_new_order returns it: the keys total_amount
\* and status may be absent.
RawOrder(order_id, items, total_amount, status) ==
    [order_id |-> order_id, items |-> items, total_amount |-> total_amount,
     status |-> status]

\* What awaiting process_new_order(...) may give: an exception, something
\* that is not a dict (None), or a raw order dict.
OrderRaised ==
    [raised |-> TRUE, is_dict |-> FALSE, order |-> RawOrder("", <<>>, None, None)]
OrderReturnedNone ==
    [raised |-> FALSE, is_dict |-> FALSE, order |-> RawOrder("", <<>>, None, None)]
OrderReturned(order) == [raised |-> FALSE, is_dict |-> TRUE, order |-> order]

ValidateOrderDict(res) ==
    IF ~res.is_dict THEN "Must return dict, got NoneType"
    ELSE LET order == res.order
             missing == Missing(order, {"order_id", "items"}, {"total_amount"})
             total == ToFloat(order, "total_amount", order.total_amount[1])
         IN  IF missing # {} THEN "Order missing: " \o SetShown(missing)
             ELSE IF ~NonEmptyString(order, "order_id")
             THEN "order['order_id'] must be non-empty string"
             ELSE IF TypeOf(order, "items", "list") # "list"
             THEN "order['items'] must be list"
             ELSE IF order.items = <<>> THEN "order['items'] cannot be empty"
             ELSE IF ValidateOrderItems(order.items, 0) # ""
             THEN ValidateOrderItems(order.items, 0)
             ELSE IF ~total.ok THEN "order['total_amount'] must be numeric"
             ELSE IF Less(total, 0)
             THEN "order['total_amount'] cannot be negative"
             ELSE ""

(***************************************************************************)
(* The validators on their own, applied to drawn payloads                  *)
(***************************************************************************)
\* The characters of the strings a number is asked of: "12.50", "-1", "3",
\* "2.7", "nan", "abc" and "".
Texts ==
    [price |-> <<"1", "2", ".", "5", "0">>, minus1 |-> <<"-", "1">>,
     three |-> <<"3">>, fraction |-> <<"2", ".", "7">>,
     nan |-> <<"n", "a", "n">>, abc |-> <<"a", "b", "c">>, empty |-> <<>>]

\* The product without its stock_level key.
WithoutStock(product) == [product EXCEPT !.stock_level = None]

\* Product dicts: the two of the catalog, and the first of them with one key
\* dropped, retyped or given another value.
ProductPayloads ==
    LET P == CatalogProduct("p1")
    IN  {P, CatalogProduct("p2"), WithoutStock(P),
         [types |-> [self |-> "str"]],
         [P EXCEPT !.variations = <<VarPM("color", "red", 350),
                                    [types |-> [self |-> "str"]]>>],
         WithoutKey(P, "id"), WithoutKey(P, "name"),
         WithoutKey(P, "base_price"),
         [P EXCEPT !.id = ""], WithKey(P, "id", "int", ""),
         [P EXCEPT !.name = ""], WithKey(P, "name", "NoneType", ""),
         [P EXCEPT !.base_price = -100], [P EXCEPT !.base_price = 0],
         WithKey(P, "base_price", "int", 20),
         WithKey(P, "base_price", "int", -1),
         WithText(P, "base_price", Texts.price),
         WithText(P, "base_price", Texts.minus1),
         WithText(P, "base_price", Texts.abc),
         WithText(P, "base_price", Texts.empty),
         WithText(P, "base_price", Texts.nan),
         WithKey(P, "base_price", "nan", 0),
         WithKey(P, "base_price", "NoneType", 0),
         [P EXCEPT !.stock_level = Some(0)],
         [P EXCEPT !.stock_level = Some(-1)],
         WithKey(P, "stock_level", "float", Some(200)),
         WithText(P, "stock_level", Texts.three),
         WithKey(P, "stock_level", "NoneType", Some(0)),
         WithKey(P, "description", "str", "cotton"),
         WithKey(P, "description", "str", ""),
         WithKey(P, "description", "NoneType", ""),
         WithKey(P, "description", "int", ""),
         WithKey(P, "image", "str", "shirt.png"),
         WithKey(P, "image", "NoneType", ""),
         WithKey(P, "image", "int", ""),
         WithoutKey(P, "variations"),
         WithKey(P, "variations", "NoneType", <<>>),
         WithKey(P, "variations", "str", <<>>),
         [P EXCEPT !.variations = <<>>],
         [P EXCEPT !.variations = <<VarPM("color", "red", 350),
                                    VarPM("", "L", 0)>>],
         [P EXCEPT !.variations = <<VarPM("color", "", 350)>>],
         [P EXCEPT !.variations = <<VarPM("color", "red", 350),
                                    Var("size", "L")>>],
         [P EXCEPT !.variations = <<WithoutKey(VarPM("size", "L", 0), "name")>>],
         [P EXCEPT !.variations = <<WithKey(VarPM("size", "L", 0),
                                            "type", "int", "")>>],
         [P EXCEPT !.variations = <<WithKey(VarPM("size", "L", 0),
                                            "name", "NoneType", "")>>],
         [P EXCEPT !.variations = <<WithText(VarPM("size", "L", 0),
                                             "price_modifier", Texts.price)>>],
         [P EXCEPT !.variations = <<WithText(VarPM("size", "L", 0),
                                             "price_modifier", Texts.abc)>>],
         [P EXCEPT !.variations = <<WithKey(VarPM("size", "L", 0),
                                            "price_modifier", "NoneType",
                                            Some(0))>>]}

\* What validate_products_list may be handed: something that is not a list,
\* or a list of product dicts, valid ones and faulty ones.
ProductListPayloads ==
    {LookupReturnedNone,
     LookupReturned(<<CatalogProduct("p1"), [types |-> [self |-> "str"]]>>)}
    \cup {LookupReturned(l) :
            l \in SeqsUpTo({CatalogProduct("p1"), CatalogProduct("p2"),
                            WithoutStock(CatalogProduct("p1")),
                            WithText(CatalogProduct("p2"), "base_price",
                                     Texts.abc)}, MaxLines)}

\* Order item dicts: one key dropped, retyped or given another value.
OrderItemPayloads ==
    LET I == RawOrderItem("p1", Some(2), None, None)
    IN  {I, RawOrderItem("p2", Some(1), Some(2000), Some(<<ColorRed>>)),
         RawOrderItem("p1", None, None, None),
         WithoutKey(I, "product_id"),
         [I EXCEPT !.product_id = ""], WithKey(I, "product_id", "int", ""),
         [I EXCEPT !.quantity = Some(0)], [I EXCEPT !.quantity = Some(-1)],
         WithKey(I, "quantity", "float", Some(270)),
         WithKey(I, "quantity", "float", Some(200)),
         WithKey(I, "quantity", "float", Some(50)),
         WithKey(I, "quantity", "float", Some(-270)),
         WithText(I, "quantity", Texts.three),
         WithText(I, "quantity", Texts.fraction),
         WithText(I, "quantity", Texts.minus1),
         WithText(I, "quantity", Texts.abc),
         WithText(I, "quantity", Texts.empty),
         WithKey(I, "quantity", "nan", Some(0)),
         WithKey(I, "quantity", "inf", Some(0)),
         [types |-> [self |-> "NoneType"]],
         [I EXCEPT !.variations =
             Some(<<ColorRed, [types |-> [self |-> "int"]]>>)],
         WithKey(I, "quantity", "NoneType", Some(0)),
         [I EXCEPT !.variations = Some(<<>>)],
         [I EXCEPT !.variations = Some(<<ColorRed, SizeL>>)],
         [I EXCEPT !.variations = Some(<<Var("", "")>>)],
         [I EXCEPT !.variations = Some(<<ColorRed, WithoutKey(SizeL, "name")>>)],
         [I EXCEPT !.variations = Some(<<WithKey(ColorRed, "type", "int", "")>>)],
         [I EXCEPT !.variations =
             Some(<<WithKey(ColorRed, "name", "NoneType", "")>>)],
         WithKey(I, "variations", "NoneType", Some(<<>>)),
         WithKey(I, "variations", "str", Some(<<>>))}

\* What validate_order_dict may be handed: something that is not a dict, or
\* an order dict with one key dropped, retyped or given another value.
OrderPayloads ==
    LET I == RawOrderItem("p1", Some(2), Some(2000), None)
        O == RawOrder("o1", <<I>>, Some(4000), None)
    IN  {OrderReturnedNone}
        \cup {OrderReturned(o) :
                o \in {O, RawOrder("o1", <<I>>, Some(4000), Some("PAID")),
                       RawOrder("o1", <<I>>, None, None),
                       WithoutKey(O, "order_id"), WithoutKey(O, "items"),
                       [O EXCEPT !.order_id = ""],
                       WithKey(O, "order_id", "int", ""),
                       [O EXCEPT !.items = <<>>],
                       WithKey(O, "items", "NoneType", <<>>),
                       [O EXCEPT !.items = <<I, [I EXCEPT !.quantity = Some(0)]>>],
                       [O EXCEPT !.items = <<[I EXCEPT !.product_id = ""], I>>],
                       [O EXCEPT !.items = <<I, [types |-> [self |-> "str"]]>>],
                       [O EXCEPT !.items =
                           <<I, WithKey(I, "quantity", "inf", Some(0))>>],
                       [O EXCEPT !.items =
                           <<WithKey(I, "quantity", "float", Some(270))>>],
                       [O EXCEPT !.total_amount = Some(0)],
                       [O EXCEPT !.total_amount = Some(-100)],
                       WithKey(O, "total_amount", "int", Some(40)),
                       WithText(O, "total_amount", Texts.price),
                       WithText(O, "total_amount", Texts.minus1),
                       WithText(O, "total_amount", Texts.abc),
                       WithKey(O, "total_amount", "nan", Some(0)),
                       WithKey(O, "total_amount", "NoneType", Some(0))}}

InitValidate ==
    /\ InitProgram
    /\ fn_in \in ({"validate_product"} \X ProductPayloads)
                 \cup ({"validate_products_list"} \X ProductListPayloads)
                 \cup ({"validate_order_item"} \X OrderItemPayloads)
                 \cup ({"validate_order_dict"} \X OrderPayloads)
    /\ fn_out = <<>>

\* A validator called on the payload: fn_out takes the error text, "" for
\* (True, "").
Validated(validator, error) ==
    /\ fn_in[1] = validator
    /\ fn_out = <<>>
    /\ fn_out' = <<error>>
    /\ UNCHANGED <<carts, shipping_calculator, now, nops, last,
                   current_session_id, inv, mt, fn_in>>

ValidateProductStep == Validated("validate_product", ValidateProduct(fn_in[2]))

ValidateProductsListStep ==
    Validated("validate_products_list", ValidateProductsList(fn_in[2]))

ValidateOrderItemStep ==
    Validated("validate_order_item", ValidateOrderItem(fn_in[2]))

ValidateOrderDictStep ==
    Validated("validate_order_dict", ValidateOrderDict(fn_in[2]))

NextValidate ==
    \/ ValidateProductStep
    \/ ValidateProductsListStep
    \/ ValidateOrderItemStep
    \/ ValidateOrderDictStep

SpecValidate == InitValidate /\ [][NextValidate]_vars

(***************************************************************************)
(* MerchantTools.search_products, create_order and calculate_total, each   *)
(* from its call to the callback it awaits and on to its end               *)
(***************************************************************************)
\* How a call ends: with an exception, or with a value (None, or a dict).
Raised(type, message) ==
    [kind |-> "raise", type |-> type, message |-> message, value |-> None]
Returned(value) ==
    [kind |-> "return", type |-> "", message |-> "", value |-> value]

\* The exception of a callback that raises passes through unchanged.
CallbackError == Raised("MerchantError", "callback failed")

\* The name of the merchant's subclass, used in create_order's error text.
MerchantClassName == "ShopTools"

\* Product(...) and product_to_dict: numbers coerced, "variations" present
\* only when the product has some.
ToProduct(p) ==
    [id |-> p.id, name |-> p.name, base_price |-> p.base_price,
     stock_level |-> p.stock_level[1],
     variations |->
        IF p.variations # <<>>
        THEN Some([i \in 1..Len(p.variations) |->
                     [type |-> p.variations[i].type,
                      name |-> p.variations[i].name,
                      price_modifier |-> p.variations[i].price_modifier[1]]])
        ELSE None]

\* Variant: a result that fails validation is answered like an empty one.
SearchProductsOutcomeLenient(res) ==
    IF res.raised THEN CallbackError
    ELSE IF ValidateProductsList(res) # "" \/ Len(res.products) = 0
    THEN Returned(None)
    ELSE Returned(Some([success |-> TRUE, total_count |-> Len(res.products),
                        products |-> [i \in 1..Len(res.products) |->
                                         ToProduct(res.products[i])],
                        error |-> ""]))

\* search_products from the return of get_products on.
SearchProductsOutcome(res) ==
    IF res.raised THEN CallbackError
    ELSE IF ValidateProductsList(res) # ""
    THEN Raised("ValidationError", ValidateProductsList(res))
    ELSE IF Len(res.products) = 0 THEN Returned(None)
    ELSE Returned(Some([success |-> TRUE, total_count |-> Len(res.products),
                        products |-> [i \in 1..Len(res.products) |->
                                         ToProduct(res.products[i])],
                        error |-> ""]))

\* search_products up to its await: get_products is invoked, once.
SearchProductsBegin(product_id) ==
    /\ mt.pc = "idle"
    /\ mt' = [NoMerchantCall EXCEPT !.op = "search_products",
                                    !.pc = "awaiting",
                                    !.lookups = <<product_id>>]
    /\ UNCHANGED <<carts, shipping_calculator, now, nops, last,
                   current_session_id, inv, fn_in, fn_out>>

\* Variant: a lookup that raises is tried once more.
SearchProductsResumeRetry(res) ==
    /\ mt.op = "search_products"
    /\ mt.pc = "awaiting"
    /\ mt' = IF res.raised /\ Len(mt.lookups) < 2
             THEN [mt EXCEPT !.lookups = Append(@, mt.lookups[1])]
             ELSE [mt EXCEPT !.pc = "done", !.results = <<res>>,
                             !.outcome = Some(SearchProductsOutcome(res))]
    /\ UNCHANGED <<carts, shipping_calculator, now, nops, last,
                   current_session_id, inv, fn_in, fn_out>>

SearchProductsResume(res) ==
    /\ mt.op = "search_products"
    /\ mt.pc = "awaiting"
    /\ mt' = [mt EXCEPT !.pc = "done", !.results = <<res>>,
                        !.outcome = Some(SearchProductsOutcome(res))]
    /\ UNCHANGED <<carts, shipping_calculator, now, nops, last,
                   current_session_id, inv, fn_in, fn_out>>

\* Variant: the loop reports the last faulty item, not the first.
RECURSIVE ValidateRequestedItemsFromEnd(_, _)
ValidateRequestedItemsFromEnd(items, idx) ==
    IF items = <<>> THEN ""
    ELSE LET rest == ValidateRequestedItemsFromEnd(Tail(items), idx + 1)
             error == ValidateOrderItem(Head(items))
         IN  IF rest # "" THEN rest
             ELSE IF error # ""
             THEN "Order item[" \o ToString(idx) \o "]: " \o error
             ELSE ""

\* The loop of create_order over the requested items: the error of the first
\* faulty item, "" when the loop ends without raising.
RECURSIVE ValidateRequestedItems(_, _)
ValidateRequestedItems(items, idx) ==
    IF items = <<>> THEN ""
    ELSE LET error == ValidateOrderItem(Head(items))
         IN  IF error # ""
             THEN "Order item[" \o ToString(idx) \o "]: " \o error
             ELSE ValidateRequestedItems(Tail(items), idx + 1)

\* create_order up to its await: the requested items are validated and, when
\* all are valid, process_new_order is invoked with them.
CreateOrderBegin(items, customer_id) ==
    /\ mt.pc = "idle"
    /\ mt' = IF ValidateRequestedItems(items, 0) # ""
             THEN [NoMerchantCall EXCEPT
                     !.op = "create_order", !.pc = "done", !.items = items,
                     !.customer_id = customer_id,
                     !.outcome =
                        Some(Raised("ValidationError",
                                    ValidateRequestedItems(items, 0)))]
             ELSE [NoMerchantCall EXCEPT
                     !.op = "create_order", !.pc = "awaiting",
                     !.items = items, !.customer_id = customer_id,
                     !.order_calls = <<[items |-> items,
                                        customer_id |-> customer_id]>>]
    /\ UNCHANGED <<carts, shipping_calculator, now, nops, last,
                   current_session_id, inv, fn_in, fn_out>>

\* OrderItem(...) and order_item_to_dict: "variations" present only when the
\* item has some; the unit price is read but not written out.
ToOrderItem(item) ==
    [product_id |-> item.product_id, quantity |-> item.quantity[1],
     variations |-> IF item.variations # None /\ item.variations[1] # <<>>
                    THEN item.variations ELSE None]

\* create_order from the return of process_new_order on.  The conversion
\* reads item["unit_price"] of every returned item.
CreateOrderOutcome(res, customer_id) ==
    IF res.raised THEN CallbackError
    ELSE IF ValidateOrderDict(res) # ""
    THEN Raised("ValidationError",
                MerchantClassName \o ".process_new_order(): "
                \o ValidateOrderDict(res))
    ELSE IF \E i \in 1..Len(res.order.items) :
                res.order.items[i].unit_price = None
    THEN Raised("KeyError", "'unit_price'")
    ELSE Returned(Some(
            [success |-> TRUE, order_id |-> res.order.order_id,
             items |-> [i \in 1..Len(res.order.items) |->
                          ToOrderItem(res.order.items[i])],
             customer_id |-> IF customer_id = None THEN "GUEST"
                             ELSE customer_id[1],
             total_amount |-> res.order.total_amount[1],
             status |-> IF res.order.status = None THEN "CREATED"
                        ELSE res.order.status[1],
             error |-> ""]))

CreateOrderResume(res) ==
    /\ mt.op = "create_order"
    /\ mt.pc = "awaiting"
    /\ mt' = [mt EXCEPT !.pc = "done", !.results = <<res>>,
                        !.outcome = Some(CreateOrderOutcome(res, mt.customer_id))]
    /\ UNCHANGED <<carts, shipping_calculator, now, nops, last,
                   current_session_id, inv, fn_in, fn_out>>

\* A requested line of calculate_total: the key variations may be absent.
TotalLine(product_id, quantity, variations) ==
    [product_id |-> product_id, quantity |-> quantity,
     variations |-> variations]

\* item.get("variations", [])
SelectedVariations(item) ==
    IF item.variations = None THEN <<>> ELSE item.variations[1]

\* calculate_total up to its first await: nothing to look up for no lines,
\* else get_products(product_id=..., limit=1) is invoked for the first line.
CalculateTotalBegin(items) ==
    /\ mt.pc = "idle"
    /\ mt' = IF items = <<>>
             THEN [NoMerchantCall EXCEPT
                     !.op = "calculate_total", !.pc = "done",
                     !.outcome = Some(Returned(Some([items |-> <<>>,
                                                     total_amount |-> 0])))]
             ELSE [NoMerchantCall EXCEPT
                     !.op = "calculate_total", !.pc = "awaiting",
                     !.items = items,
                     !.lookups = <<Some(items[1].product_id)>>]
    /\ UNCHANGED <<carts, shipping_calculator, now, nops, last,
                   current_session_id, inv, fn_in, fn_out>>

\* One turn of the loop of calculate_total, from the return of get_products
\* for the line in hand to the next await or to the end of the call.
CalculateTotalNext(m, res) ==
    LET k == Len(m.order_items) + 1
        item == m.items[k]
        selected == SelectedVariations(item)
    IN  IF res.raised
        THEN [m EXCEPT !.pc = "done", !.results = Append(@, res),
                       !.outcome = Some(CallbackError)]
        ELSE IF res.products = <<>>
        THEN [m EXCEPT !.pc = "done", !.results = Append(@, res),
                       !.outcome =
                          Some(Raised("ValueError",
                                      "Product " \o item.product_id
                                      \o " not found"))]
        ELSE LET product == res.products[1]
                 item_price == ItemPrice(product, selected)
                 priced == [product_id |-> item.product_id,
                            product_name |-> product.name,
                            quantity |-> item.quantity,
                            unit_price |-> item_price,
                            variations |-> IF selected # <<>>
                                           THEN Some(selected) ELSE None]
                 order_items == Append(m.order_items, priced)
                 total_amount == m.total_amount + item_price * item.quantity
             IN  IF k < Len(m.items)
                 THEN [m EXCEPT
                         !.results = Append(@, res),
                         !.order_items = order_items,
                         !.total_amount = total_amount,
                         !.lookups = Append(@, Some(m.items[k + 1].product_id))]
                 ELSE [m EXCEPT
                         !.pc = "done", !.results = Append(@, res),
                         !.order_items = order_items,
                         !.total_amount = total_amount,
                         !.outcome =
                            Some(Returned(Some([items |-> order_items,
                                                total_amount |-> total_amount])))]

\* Variant: the priced lines are handed to process_new_order at the end.
CalculateTotalResumeOrders(res) ==
    /\ mt.op = "calculate_total"
    /\ mt.pc = "awaiting"
    /\ mt' = LET m == CalculateTotalNext(mt, res)
             IN  IF m.pc = "done" /\ m.outcome[1].kind = "return"
                 THEN [m EXCEPT !.order_calls =
                          <<[items |-> m.order_items, customer_id |-> None]>>]
                 ELSE m
    /\ UNCHANGED <<carts, shipping_calculator, now, nops, last,
                   current_session_id, inv, fn_in, fn_out>>

CalculateTotalResume(res) ==
    /\ mt.op = "calculate_total"
    /\ mt.pc = "awaiting"
    /\ mt' = CalculateTotalNext(mt, res)
    /\ UNCHANGED <<carts, shipping_calculator, now, nops, last,
                   current_session_id, inv, fn_in, fn_out>>

(***************************************************************************)
(* The callers of the boundary and the merchant behind it                  *)
(***************************************************************************)
ColorBlue == Var("color", "blue")
SizeXL == Var("size", "XL")

\* The other product of the catalog.
OtherProduct(p) == IF p = "p1" THEN "p2" ELSE "p1"

\* What a merchant may answer to get_products(product_id=p, limit=1): the
\* answers of LookupResults, None, a product dict that fails validation, a
\* product other than the one asked for, and the product with one more
\* catalog entry for (color, red), at another modifier.
RawLookupResults(p) ==
    LookupResults(p)
    \cup {LookupReturnedNone,
          LookupReturned(<<WithoutStock(CatalogProduct(p))>>),
          LookupReturned(<<CatalogProduct(OtherProduct(p))>>),
          LookupReturned(<<[CatalogProduct(p) EXCEPT
                              !.variations =
                                 Append(@, VarPM("color", "red", 500))]>>)}

\* The raw product dicts of search results: two valid ones, one without
\* stock_level and one with a negative price.
RawProducts ==
    {CatalogProduct("p1"), CatalogProduct("p2"),
     WithoutStock(CatalogProduct("p1")),
     [CatalogProduct("p2") EXCEPT !.base_price = -100]}

SearchResults ==
    {LookupRaised, LookupReturnedNone}
    \cup {LookupReturned(l) : l \in SeqsUpTo(RawProducts, MaxLines)}

\* The items a caller asks create_order for: two valid ones, one with
\* quantity 0, one with an empty product id, one without a quantity.
OrderItemInputs ==
    {RawOrderItem("p1", Some(2), None, Some(<<ColorRed>>)),
     RawOrderItem("p2", Some(1), None, None),
     RawOrderItem("p1", Some(0), None, None),
     RawOrderItem("", Some(1), None, None),
     RawOrderItem("p2", None, None, None)}

CustomerInputs == {None, Some("c1")}

\* The items with the unit price the merchant charges.
WithUnitPrice(items) ==
    [i \in 1..Len(items) |-> [items[i] EXCEPT !.unit_price = Some(2000)]]

\* What a merchant may answer to process_new_order(items, customer_id): an
\* exception, None, the order with and without unit prices on its items
\* (the docstring of process_new_order lists no unit_price), and orders that
\* break one of the order rules.
OrderResults(items) ==
    {OrderRaised, OrderReturnedNone,
     OrderReturned(RawOrder("o1", WithUnitPrice(items), Some(4000), None)),
     OrderReturned(RawOrder("o1", WithUnitPrice(items), Some(4000),
                            Some("PAID"))),
     OrderReturned(RawOrder("o1", items, Some(4000), None)),
     OrderReturned(RawOrder("", WithUnitPrice(items), Some(4000), None)),
     OrderReturned(RawOrder("o1", WithUnitPrice(items), Some(-100), None)),
     OrderReturned(RawOrder("o1", WithUnitPrice(items), None, None)),
     OrderReturned(RawOrder("o1",
                            <<RawOrderItem("p1", Some(0), Some(2000), None)>>,
                            Some(4000), None))}

\* The lines a caller asks calculate_total for.
TotalLineInputs ==
    {TotalLine("p1", 2, Some(<<ColorRed>>)),
     TotalLine("p1", 1, Some(<<ColorBlue, SizeXL, ColorRed>>)),
     TotalLine("p1", 1, Some(<<ColorRed, ColorRed>>)),
     TotalLine("p2", 1, None)}

SearchProductsBeginStep ==
    \E product_id \in {None, Some("p1")} : SearchProductsBegin(product_id)

SearchProductsResumeStep ==
    \E res \in SearchResults : SearchProductsResume(res)

CreateOrderBeginStep ==
    \E items \in SeqsUpTo(OrderItemInputs, MaxLines),
       customer_id \in CustomerInputs :
        CreateOrderBegin(items, customer_id)

CreateOrderResumeStep ==
    /\ mt.op = "create_order"
    /\ mt.pc = "awaiting"
    /\ \E res \in OrderResults(mt.items) : CreateOrderResume(res)

CalculateTotalBeginStep ==
    \E items \in SeqsUpTo(TotalLineInputs, MaxLines) :
        CalculateTotalBegin(items)

CalculateTotalResumeStep ==
    /\ mt.op = "calculate_total"
    /\ mt.pc = "awaiting"
    /\ \E res \in RawLookupResults(mt.items[Len(mt.order_items) + 1].product_id) :
          CalculateTotalResume(res)

\* Adds to the cart of one session, at any moment of the call in flight.
SeedCartStep ==
    /\ nops < MaxSeedOps
    /\ \E p \in Products : Add("s1", p, 1, <<>>, Some(2500))

NextBoundary ==
    \/ SearchProductsBeginStep
    \/ SearchProductsResumeStep
    \/ CreateOrderBeginStep
    \/ CreateOrderResumeStep
    \/ CalculateTotalBeginStep
    \/ CalculateTotalResumeStep
    \/ SeedCartStep

SpecBoundary == Init /\ [][NextBoundary]_vars

(***************************************************************************)
(* A caller that changes the summary it was handed.  The "items" of a      *)
(* summary built by _get_cart_summary is the list object the cart holds,   *)
(* and its elements are the cart's item dicts: a change made through the   *)
(* summary is a change of the cart.  The items of the "Cart is empty" dict *)
(* is a list of its own.                                                   *)
(***************************************************************************)
\* The store and the held summary after the caller's change of the list.
WriteThroughSummary(items) ==
    /\ last.op \in {"add", "view", "remove"}
    /\ last.ret # None
    /\ last' = [last EXCEPT !.ret = Some([last.ret[1] EXCEPT !.items = items])]
    /\ carts' = IF "total_amount" \in DOMAIN last.ret[1]
                THEN [carts EXCEPT ![last.session_id].items = items]
                ELSE carts
    /\ UNCHANGED <<shipping_calculator, now, nops, current_session_id, inv,
                   mt, fn_in, fn_out>>

\* summary["items"].clear()
CallerClearsItems ==
    /\ last.ret # None
    /\ last.ret[1].items # <<>>
    /\ WriteThroughSummary(<<>>)

\* summary["items"][0]["quantity"] = 0
CallerZeroesQuantity ==
    /\ last.ret # None
    /\ last.ret[1].items # <<>>
    /\ last.ret[1].items[1].quantity # 0
    /\ WriteThroughSummary([last.ret[1].items EXCEPT ![1].quantity = 0])

DeepViewStep ==
    /\ nops < MaxDeepOps
    /\ View("s1")

NextAlias ==
    \/ DeepAddStep
    \/ DeepRemoveStep
    \/ DeepViewStep
    \/ CallerClearsItems
    \/ CallerZeroesQuantity

SpecAlias == Init /\ [][NextAlias]_vars

(***************************************************************************)
(* Properties                                                              *)
(***************************************************************************)
\* The matcher as the design states it: same length and the same (type, name)
\* pairs, each as often in one list as in the other.
KeyCount(v, t, n) ==
    Cardinality({i \in 1..Len(v) : v[i].type = t /\ v[i].name = n})

SameVariationSet(a, b) ==
    /\ Len(a) = Len(b)
    /\ \A i \in 1..Len(a) :
          KeyCount(a, a[i].type, a[i].name) = KeyCount(b, a[i].type, a[i].name)

\* The items of a list that are the line (p, v).
LineIndexes(items, p, v) ==
    {i \in 1..Len(items) :
        items[i].product_id = p /\ SameVariationSet(items[i].variations, v)}

ItemsOf(cs, s) == IF s \in DOMAIN cs THEN cs[s].items ELSE <<>>

\* This step is a call of a store method.
StoreCalled == nops' = nops + 1

HasSummary(call) == call.ret # None /\ "total_amount" \in DOMAIN call.ret[1]

\* C2: an add of (s, p, q1, v) that creates the line, followed by an add of
\* (s, p, q2, v') with v' a reordering of v, leaves exactly one item for that
\* line, with quantity q1 + q2; in general a successful add leaves exactly one
\* item for its line, holding the line's earlier quantity plus the added one.
AddThenPermutedAddMerges ==
    [][ (StoreCalled /\ last'.op = "add" /\ last'.error = "")
        => LET s == last'.session_id
               p == last'.product_id
               v == last'.variations
               pre == LineIndexes(ItemsOf(carts, s), p, v)
               post == LineIndexes(ItemsOf(carts', s), p, v)
           IN  /\ Cardinality(post) = 1
               /\ pre = {} => \A i \in post :
                     carts'[s].items[i].quantity = last'.quantity
               /\ \A j \in pre : \A i \in post :
                     carts'[s].items[i].quantity
                        = carts[s].items[j].quantity + last'.quantity
               /\ ( /\ last.op = "add" /\ last.error = ""
                    /\ last.session_id = s /\ last.product_id = p
                    /\ SameVariationSet(last.variations, v)
                    /\ \A j \in pre : carts[s].items[j].quantity = last.quantity )
                  => \A i \in post :
                        carts'[s].items[i].quantity
                           = last.quantity + last'.quantity
      ]_vars

\* A merge through a reordered list: the stored list is (color, size), the last
\* add named (size, color), and the single item holds 1 + 2 units.
PermutedAddMerged ==
    /\ last.op = "add" /\ last.error = ""
    /\ last.variations = <<SizeL, ColorRed>>
    /\ last.session_id \in DOMAIN carts
    /\ LET items == carts[last.session_id].items
       IN  /\ Len(items) = 1
           /\ items[1].variations = <<ColorRed, SizeL>>
           /\ items[1].quantity = 3
           /\ nops = 2

\* C3: every summary a store method returns for a cart has
\* total_amount = subtotal + shipping_fee.
TotalIsSubtotalPlusShipping ==
    HasSummary(last) =>
        last.ret[1].total_amount
            = last.ret[1].subtotal + last.ret[1].shipping_fee

\* A summary with a subtotal and a fee, returned under a replaced policy.
SummaryWithFeeUnderCustomPolicy ==
    /\ HasSummary(last)
    /\ shipping_calculator = "custom"
    /\ last.ret[1].subtotal > 0
    /\ last.ret[1].shipping_fee > 0

\* C4: the shipping_fee of every summary returned by add, view or remove is
\* max(0, P(subtotal, item_count, items)) for the policy P installed now and
\* the cart's contents now, and it is never negative.
ShippingFeeIsFreshAndClamped ==
    HasSummary(last) =>
        LET sum == last.ret[1]
            items == ItemsOf(carts, last.session_id)
            raw == ApplyCalculator(shipping_calculator, SumAmounts(items),
                                   Len(items), items)
        IN  /\ sum.items = items
            /\ sum.item_count = Len(items)
            /\ sum.subtotal = SumAmounts(items)
            /\ sum.shipping_fee = (IF raw >= 0 THEN raw ELSE 0)
            /\ sum.shipping_fee >= 0

\* A summary whose policy answered a negative fee, reported as 0.
NegativeFeeClamped ==
    /\ HasSummary(last)
    /\ last.ret[1].items # <<>>
    /\ ApplyCalculator(shipping_calculator, last.ret[1].subtotal,
                       last.ret[1].item_count, last.ret[1].items) < 0
    /\ last.ret[1].shipping_fee = 0

NoLineIn(cs, s, p, v) == LineIndexes(ItemsOf(cs, s), p, v) = {}

\* C5: a remove that matches no item of the session (the session may have no
\* cart) raises nothing and leaves the store as it was, updated_at included,
\* and the same call made again returns the same summary.
RemoveWithoutMatchChangesNothing ==
    [][ ( /\ StoreCalled /\ last'.op = "remove"
          /\ NoLineIn(carts, last'.session_id, last'.product_id,
                      last'.variations) )
        => /\ last'.error = ""
           /\ last'.ret # None
           /\ carts' = carts
           /\ now' = now
           /\ RemoveFromCart(carts', now', shipping_calculator',
                             last'.session_id, last'.product_id,
                             last'.variations)
                 = Outcome(carts', now', "", last'.ret)
      ]_vars

\* Two adds and then a remove that found nothing: both items are still there.
RemoveFoundNothing ==
    /\ last.op = "remove" /\ last.error = ""
    /\ nops = 3
    /\ last.session_id \in DOMAIN carts
    /\ Len(carts[last.session_id].items) = 2
    /\ NoLineIn(carts, last.session_id, last.product_id, last.variations)

\* C7: view changes nothing in the store (no cart is created, no item and no
\* updated_at changes), and for a session without a cart it returns a summary
\* with item_count 0 and no items instead of failing.
ViewChangesNothing ==
    [][ (StoreCalled /\ last'.op = "view")
        => /\ carts' = carts
           /\ now' = now
           /\ shipping_calculator' = shipping_calculator
           /\ last'.error = ""
           /\ last'.ret # None
           /\ last'.session_id \notin DOMAIN carts
                 => /\ last'.ret[1].item_count = 0
                    /\ last'.ret[1].items = <<>>
      ]_vars

\* A view of a session that has no cart, while another session has one.
ViewedSessionWithoutCart ==
    /\ last.op = "view"
    /\ last.session_id \notin DOMAIN carts
    /\ DOMAIN carts # {}
    /\ last.ret # None /\ last.ret[1].item_count = 0

\* C8: an add with quantity <= 0 fails with the quantity error and leaves the
\* store as it was: no cart is created and nothing of an existing cart changes.
BadQuantityAddChangesNothing ==
    [][ (StoreCalled /\ last'.op = "add" /\ last'.quantity <= 0)
        => /\ last'.error = "ValueError"
           /\ last'.ret = None
           /\ carts' = carts
           /\ now' = now
      ]_vars

\* A refused add on a session without a cart, beside a session that has one.
BadQuantityAddRefused ==
    /\ last.op = "add" /\ last.quantity <= 0
    /\ last.error = "ValueError"
    /\ last.session_id \notin DOMAIN carts
    /\ DOMAIN carts # {}

\* C9: add, view and remove on one session leave the cart of every other
\* session as it was: its existence, items, quantities, amounts, created_at
\* and updated_at.
OtherSessionsUntouched ==
    [][ (StoreCalled /\ last'.op \in {"add", "view", "remove"})
        => \A s \in Sessions \ {last'.session_id} :
              /\ (s \in DOMAIN carts') = (s \in DOMAIN carts)
              /\ s \in DOMAIN carts => carts'[s] = carts[s]
      ]_vars

\* Both sessions hold items and the last call changed s1's cart.
TwoSessionsWithItems ==
    /\ last.op \in {"add", "remove"} /\ last.error = ""
    /\ last.session_id = "s1"
    /\ DOMAIN carts = {"s1", "s2"}
    /\ carts["s2"].items # <<>>
    /\ carts["s1"].updated_at = now

RECURSIVE NotOfLine(_, _, _)
NotOfLine(items, p, v) ==
    IF items = <<>> THEN <<>>
    ELSE IF Head(items).product_id = p
            /\ SameVariationSet(Head(items).variations, v)
         THEN NotOfLine(Tail(items), p, v)
         ELSE <<Head(items)>> \o NotOfLine(Tail(items), p, v)

\* C6: after remove(s, p, v) the cart of s holds no item of the line (p, v),
\* and its items are exactly the earlier items that are not of that line,
\* unchanged and in their earlier order.
RemoveDropsExactlyTheLine ==
    [][ (StoreCalled /\ last'.op = "remove" /\ last'.session_id \in DOMAIN carts)
        => LET s == last'.session_id
               p == last'.product_id
               v == last'.variations
           IN  /\ s \in DOMAIN carts'
               /\ NoLineIn(carts', s, p, v)
               /\ carts'[s].items = NotOfLine(carts[s].items, p, v)
      ]_vars

\* Three adds made three items and the remove took one: two are left.
RemovedOneOfThree ==
    /\ last.op = "remove"
    /\ nops = 4
    /\ now = 6
    /\ "s1" \in DOMAIN carts
    /\ Len(carts["s1"].items) = 2

AddedTo(s, p, v) ==
    {i \in Invocations :
        /\ inv[i].pc = "done" /\ inv[i].result = "added"
        /\ inv[i].session_id = s /\ inv[i].product_id = p
        /\ SameVariationSet(inv[i].variations, v)}

RECURSIVE SumAdded(_)
SumAdded(is) ==
    IF is = {} THEN 0
    ELSE LET i == CHOOSE x \in is : TRUE
         IN  inv[i].quantity + SumAdded(is \ {i})

\* C1: when two add_to_cart tool invocations on one session have both
\* completed, however their steps interleaved, no add is lost: every line
\* they added is one item of the cart, holding the sum of the quantities the
\* successful invocations added to it (q1 + q2 for one line, q1 and q2 for two).
NoLostAdd ==
    (\A i \in Invocations : inv[i].pc = "done")
    => \A i \in Invocations :
          inv[i].result = "added"
          => LET s == inv[i].session_id
                 hits == LineIndexes(ItemsOf(carts, s), inv[i].product_id,
                                     inv[i].variations)
             IN  /\ Cardinality(hits) = 1
                 /\ \A k \in hits :
                       carts[s].items[k].quantity
                          = SumAdded(AddedTo(s, inv[i].product_id,
                                             inv[i].variations))

\* Both invocations were suspended on the lookup at once, on the same session
\* and line, and the one item holds 1 + 2 units.
BothSuspendedThenMerged ==
    /\ \A i \in Invocations :
          /\ inv[i].pc = "done" /\ inv[i].result = "added"
          /\ inv[i].begun_at = 0
          /\ inv[i].session_id = "s1" /\ inv[i].product_id = "p1"
    /\ last.unit_price = Some(2350)
    /\ carts["s1"].items[1].unit_price = Some(2350)
    /\ inv[1].quantity = 1 /\ inv[2].quantity = 2
    /\ inv[1].variations = <<ColorRed, SizeL>>
    /\ inv[2].variations = <<SizeL, ColorRed>>
    /\ Len(carts["s1"].items) = 1
    /\ carts["s1"].items[1].quantity = 3

\* C10: the matcher answers true exactly when the two lists have the same
\* length and, sorted on (type, name), agree element by element on (type, name);
\* price_modifier and any other key of an element play no part.
MatcherComparesTypeAndNameOnly ==
    fn_out # <<>> => fn_out[1] = SameVariationSet(fn_in[1], fn_in[2])

OrderItemRulesHold(item) ==
    /\ item.product_id # ""
    /\ item.quantity # None
    /\ item.quantity[1] > 0

InvalidIndexes(items) ==
    {i \in 1..Len(items) : ~OrderItemRulesHold(items[i])}

Lowest(S) == CHOOSE i \in S : \A j \in S : i <= j

\* C11: create_order validates every requested item before it invokes
\* process_new_order: the callback is invoked only when all requested items
\* are valid; when some item is invalid the callback is never invoked and the
\* call ends with a ValidationError naming the lowest index (counted from 0)
\* of an invalid item and its reason.
InvalidItemStopsCreateOrder ==
    mt.op = "create_order"
    => LET bad == InvalidIndexes(mt.items)
       IN  /\ mt.order_calls # <<>> => bad = {}
           /\ bad # {}
              => /\ mt.order_calls = <<>>
                 /\ mt.pc = "done"
                 /\ ValidateOrderItem(mt.items[Lowest(bad)]) # ""
                 /\ mt.outcome
                      = Some(Raised("ValidationError",
                                    "Order item[" \o ToString(Lowest(bad) - 1)
                                    \o "]: "
                                    \o ValidateOrderItem(mt.items[Lowest(bad)])))

\* A valid item followed by one with quantity 0: the second one is named and
\* the merchant was not called.
SecondRequestedItemRefused ==
    /\ mt.op = "create_order"
    /\ Len(mt.items) = 2
    /\ OrderItemRulesHold(mt.items[1])
    /\ mt.order_calls = <<>>
    /\ mt.outcome = Some(Raised("ValidationError",
                                "Order item[1]: item['quantity'] must be > 0"))

\* The order rules of the design: a non-empty order id, at least one item,
\* every item within the order-item rules, a total that is not negative.
OrderRulesHold(order) ==
    /\ order.order_id # ""
    /\ order.items # <<>>
    /\ \A i \in 1..Len(order.items) : OrderItemRulesHold(order.items[i])
    /\ order.total_amount # None
    /\ order.total_amount[1] >= 0

\* C12: when the requested items are valid and process_new_order returns a
\* dict, order validation of that dict decides the outcome of create_order:
\* a dict within the order rules gives a successful order carrying the dict's
\* order_id, items and total_amount, and nothing else can fail; a dict that
\* breaks a rule gives a ValidationError and no order.
OrderValidationDecidesOutcome ==
    (/\ mt.op = "create_order"
     /\ mt.pc = "done"
     /\ mt.results # <<>>
     /\ mt.results[1].is_dict)
    => LET order == mt.results[1].order
           out == mt.outcome[1]
       IN  IF OrderRulesHold(order)
           THEN /\ out.kind = "return"
                /\ out.value # None
                /\ out.value[1].success
                /\ out.value[1].order_id = order.order_id
                /\ out.value[1].total_amount = order.total_amount[1]
                /\ Len(out.value[1].items) = Len(order.items)
                /\ \A i \in 1..Len(order.items) :
                      /\ out.value[1].items[i].product_id
                           = order.items[i].product_id
                      /\ out.value[1].items[i].quantity
                           = order.items[i].quantity[1]
           ELSE /\ out.kind = "raise"
                /\ out.type = "ValidationError"
                /\ out.value = None

\* C13: in calculate_total no lookup result has a part in a price unless it
\* passed product validation: every line that was given a unit price, and so
\* entered the total, was priced from a result that validates.
OnlyValidatedProductsArePriced ==
    mt.op = "calculate_total"
    => \A i \in 1..Len(mt.order_items) :
          ValidateProductsList(mt.results[i]) = ""

\* C14: a failed price lookup of an add_to_cart invocation is reported and
\* nothing is added: when get_products raises or finds no product, the
\* invocation ends as a failure and the carts are as they were.
LookupFailureIsReported ==
    [][ \A i \in Invocations :
          (/\ inv[i].pc = "awaiting"
           /\ \E res \in {LookupRaised, LookupReturned(<<>>)} :
                 LookupReturn(i, res))
          => /\ inv'[i].result = "failed"
             /\ carts' = carts
      ]_vars

\* The modifier the design gives a selected variation: that of the catalog
\* entry with exactly its type and name, nothing when no entry has them.
MatchingEntries(catalog, selected_var) ==
    {j \in 1..Len(catalog) :
        /\ catalog[j].type = selected_var.type
        /\ catalog[j].name = selected_var.name}

DesignModifier(catalog, selected_var) ==
    IF MatchingEntries(catalog, selected_var) = {} THEN 0
    ELSE catalog[Lowest(MatchingEntries(catalog, selected_var))].price_modifier[1]

RECURSIVE SumSeq(_)
SumSeq(numbers) ==
    IF numbers = <<>> THEN 0 ELSE Head(numbers) + SumSeq(Tail(numbers))

DesignItemPrice(product, selected) ==
    product.base_price
    + SumSeq([i \in 1..Len(selected) |->
                 DesignModifier(product.variations, selected[i])])

\* C15: calculate_total prices each requested line at the product's base
\* price plus the modifiers of the selected variations that match a catalog
\* entry on exactly (type, name), unmatched ones adding nothing, and the total
\* is the sum over the lines of item_price * quantity; base 20.00 with one
\* matching modifier 3.50 and quantity 2 gives 23.50 and adds 47.00.
TotalIsSumOfPricedLines ==
    mt.op = "calculate_total"
    => /\ \A i \in 1..Len(mt.order_items) :
             /\ mt.order_items[i].unit_price
                  = DesignItemPrice(mt.results[i].products[1],
                                    SelectedVariations(mt.items[i]))
             /\ (/\ mt.results[i].products[1].base_price = 2000
                 /\ mt.items[i] = TotalLine("p1", 2, Some(<<ColorRed>>)))
                => /\ mt.order_items[i].unit_price = 2350
                   /\ mt.order_items[i].unit_price * mt.items[i].quantity = 4700
       /\ mt.total_amount
            = SumSeq([i \in 1..Len(mt.order_items) |->
                         mt.order_items[i].unit_price * mt.items[i].quantity])
       /\ (mt.pc = "done" /\ mt.outcome[1].kind = "return")
          => /\ Len(mt.order_items) = Len(mt.items)
             /\ mt.outcome[1].value = Some([items |-> mt.order_items,
                                            total_amount |-> mt.total_amount])

\* Two lines were priced: the shirt in red twice, and the shirt once with an
\* unknown colour, size XL and red.
TwoLinesPriced ==
    /\ mt.op = "calculate_total"
    /\ mt.pc = "done"
    /\ mt.items = <<TotalLine("p1", 2, Some(<<ColorRed>>)),
                    TotalLine("p1", 1, Some(<<ColorBlue, SizeXL, ColorRed>>))>>
    /\ mt.outcome[1].kind = "return"
    /\ mt.outcome[1].value[1].items[1].unit_price = 2350
    /\ mt.outcome[1].value[1].items[2].unit_price = 2500
    /\ mt.outcome[1].value[1].total_amount = 7200

\* C16: calculate_total looks every requested line up by its product id and,
\* whenever the lookup for a line gives no product with the requested id,
\* ends there with a product-not-found error and no result, partial or whole.
MissingProductFailsTotal ==
    mt.op = "calculate_total"
    => /\ \A i \in 1..Len(mt.lookups) :
             mt.lookups[i] = Some(mt.items[i].product_id)
       /\ \A i \in 1..Len(mt.results) :
             (/\ ~mt.results[i].raised
              /\ \A j \in 1..Len(mt.results[i].products) :
                    mt.results[i].products[j].id # mt.items[i].product_id)
             => /\ i = Len(mt.results)
                /\ mt.pc = "done"
                /\ mt.outcome
                     = Some(Raised("ValueError",
                                   "Product " \o mt.items[i].product_id
                                   \o " not found"))

\* This step is a step of a MerchantTools method call.
MerchantCallStep == mt' # mt

CatalogRulesHold(variations) ==
    \A j \in 1..Len(variations) :
        /\ variations[j].type # ""
        /\ variations[j].name # ""
        /\ variations[j].price_modifier # None

FaultyField(product) ==
    IF product.stock_level = None THEN "stock_level"
    ELSE IF product.id = "" THEN "id"
    ELSE IF product.name = "" THEN "name"
    ELSE IF product.base_price < 0 THEN "base_price"
    ELSE IF product.stock_level[1] < 0 THEN "stock_level"
    ELSE IF ~CatalogRulesHold(product.variations) THEN "variations"
    ELSE ""

FaultyProducts(products) ==
    {i \in 1..Len(products) : FaultyField(products[i]) # ""}

\* The error texts that name a field.
FaultTexts(field) ==
    CASE field = "stock_level" -> {"Product missing: {'stock_level'}",
                                   "product['stock_level'] must be >= 0"}
      [] field = "base_price" -> {"product['base_price'] must be >= 0"}
      [] field = "id" -> {"product['id'] must be non-empty string"}
      [] field = "name" -> {"product['name'] must be non-empty string"}
      [] OTHER -> {}

\* C18: search_products tells a schema failure from an empty match: a result
\* of get_products that fails product-list validation ends the call with a
\* ValidationError, which names the lowest index (counted from 0) of a faulty
\* product and the field at fault; a valid empty list ends it with the return
\* of None and no error; the two outcomes are never the same value.
SchemaFailureIsNotEmptyMatch ==
    (/\ mt.op = "search_products"
     /\ mt.pc = "done"
     /\ ~mt.results[1].raised)
    => LET res == mt.results[1]
           out == mt.outcome[1]
           bad == FaultyProducts(res.products)
       IN  /\ ~res.is_list
              => /\ out.kind = "raise"
                 /\ out.type = "ValidationError"
           /\ bad # {}
              => \E text \in FaultTexts(FaultyField(res.products[Lowest(bad)])) :
                    out = Raised("ValidationError",
                                 "Product[" \o ToString(Lowest(bad) - 1)
                                 \o "]: " \o text)
           /\ (res.is_list /\ res.products = <<>>) => out = Returned(None)
           /\ (res.is_list /\ bad = {} /\ res.products # <<>>)
              => /\ out.kind = "return"
                 /\ out.value # None
           /\ out.kind = "raise" => out # Returned(None)

\* The second product of the result lacked its stock_level: the error names
\* index 1 and the field.
SecondProductFaulty ==
    /\ mt.op = "search_products"
    /\ mt.pc = "done"
    /\ Len(mt.results[1].products) = 2
    /\ mt.outcome = Some(Raised("ValidationError",
                                "Product[1]: Product missing: {'stock_level'}"))

\* C19: no callback is retried: a search_products call invokes get_products
\* exactly once, a create_order call invokes process_new_order at most once, a
\* calculate_total call invokes get_products at most once for each requested
\* line, in the order of the lines; and when a callback raises, the call ends
\* with that exception, no invocation having followed it.
NoRetry ==
    /\ mt.op = "search_products"
       => /\ Len(mt.lookups) = 1
          /\ mt.order_calls = <<>>
    /\ mt.op = "create_order"
       => /\ Len(mt.order_calls) <= 1
          /\ mt.lookups = <<>>
    /\ mt.op = "calculate_total"
       => /\ Len(mt.lookups) <= Len(mt.items)
          /\ \A i \in 1..Len(mt.lookups) :
                mt.lookups[i] = Some(mt.items[i].product_id)
          /\ mt.order_calls = <<>>
    /\ \A i \in 1..Len(mt.results) :
          mt.results[i].raised
          => /\ i = Len(mt.results)
             /\ mt.pc = "done"
             /\ mt.outcome = Some(CallbackError)
             /\ Len(mt.lookups) + Len(mt.order_calls) = Len(mt.results)

\* The lookup for the second line of a preview raised: two invocations, and
\* the exception is the outcome.
SecondLookupRaised ==
    /\ mt.op = "calculate_total"
    /\ Len(mt.items) = 2
    /\ Len(mt.lookups) = 2
    /\ Len(mt.results) = 2
    /\ mt.results[2].raised
    /\ mt.outcome = Some(CallbackError)

\* The keys of a cart summary.
SummaryKeys ==
    {"session_id", "items", "item_count", "subtotal", "shipping_fee",
     "total_amount", "updated_at"}

\* C21: every dict returned by add, view and remove, whatever the state of the
\* store, has all of the keys session_id, items, item_count, subtotal,
\* shipping_fee, total_amount and updated_at.
EverySummaryHasAllKeys ==
    (last.op \in {"add", "view", "remove"} /\ last.ret # None)
    => SummaryKeys \subseteq DOMAIN last.ret[1]

\* This step is a caller's change of the summary it holds, not a store call.
CallerChangedSummary == nops' = nops /\ last' # last

\* C22: callers cannot change a cart through a returned summary: a change of
\* the items list, or of an item, of a summary returned by add, view or remove
\* leaves the carts of the store as they were.
SummaryChangeLeavesStore ==
    [][CallerChangedSummary => carts' = carts]_vars

\* C23: after any sequence of cart operations every cart item has a positive
\* quantity, every item with a unit_price has amount = unit_price * quantity
\* (also after a merging add raised the quantity), and an item has an amount
\* only if it has a unit_price.
CartItemsWellFormed ==
    \A s \in DOMAIN carts :
        \A i \in 1..Len(carts[s].items) :
            LET item == carts[s].items[i]
            IN  /\ item.quantity > 0
                /\ item.unit_price # None
                   => item.amount = Some(item.unit_price[1] * item.quantity)
                /\ item.amount # None => item.unit_price # None

\* A priced item grew from 1 to 3 units by a merging add, beside an item
\* without a price.
MergedPricedItemBesideUnpriced ==
    /\ "s1" \in DOMAIN carts
    /\ Len(carts["s1"].items) = 2
    /\ carts["s1"].items[1].quantity = 3
    /\ carts["s1"].items[1].amount = Some(7500)
    /\ carts["s1"].items[2].unit_price = None
    /\ last.op = "add"
    /\ last.quantity = 2
    /\ last.product_id = carts["s1"].items[1].product_id

\* C24: in every summary the subtotal is the sum of amount over exactly the
\* items that have an amount; an item added without a unit price adds nothing
\* to it, yet it is counted in item_count and it is among the items, and in
\* the count, that the shipping policy is given.
SubtotalCountsResolvedAmounts ==
    HasSummary(last)
    => LET ret == last.ret[1]
           items == ret.items
       IN  /\ ret.subtotal
                = SumSeq([i \in 1..Len(items) |->
                             IF items[i].amount # None
                             THEN items[i].amount[1] ELSE 0])
           /\ ret.item_count = Len(items)
           /\ ret.shipping_fee
                = Max(0, ApplyCalculator(shipping_calculator, ret.subtotal,
                                         Len(items), items))

\* A priced item and an unpriced one under the default policy: the subtotal
\* is the priced amount, both are counted and the fee is that of two items.
UnpricedItemCountedNotSummed ==
    /\ HasSummary(last)
    /\ shipping_calculator = "default"
    /\ last.ret[1].item_count = 2
    /\ last.ret[1].items[1].amount = Some(2500)
    /\ last.ret[1].items[2].amount = None
    /\ last.ret[1].subtotal = 2500
    /\ last.ret[1].shipping_fee = 550

\* C25: a session has a cart exactly from its first successful add onward:
\* a store call never deletes a cart (not even a remove that empties it) and
\* never changes a cart's created_at; a cart that appears was created by a
\* successful add for that very session, so view, remove and a refused add
\* create none; and after a successful add the session's cart exists.
CartLifetime ==
    [][StoreCalled
       => /\ DOMAIN carts \subseteq DOMAIN carts'
          /\ \A s \in DOMAIN carts :
                carts'[s].created_at = carts[s].created_at
          /\ \A s \in DOMAIN carts' \ DOMAIN carts :
                /\ last'.op = "add"
                /\ last'.error = ""
                /\ last'.session_id = s
          /\ (last'.op = "add" /\ last'.error = "")
                => last'.session_id \in DOMAIN carts']_vars

\* A remove has just emptied the cart of s1, which is still in the store
\* beside a session that was only viewed and has no cart.
EmptiedCartStillStored ==
    /\ last.op = "remove"
    /\ last.session_id = "s1"
    /\ "s1" \in DOMAIN carts
    /\ carts["s1"].items = <<>>
    /\ carts["s1"].updated_at > carts["s1"].created_at + 1
    /\ "s2" \notin DOMAIN carts

\* A validator has been called on the payload and has answered.
Answered(validator) == fn_in[1] = validator /\ fn_out # <<>>

Accepted(validator) == Answered(validator) /\ fn_out[1] = ""

Rejected(validator) == Answered(validator) /\ fn_out[1] # ""

\* The value under the key coerces to a number that is >= 0.
CoercesToNonNegative(d, key, value) ==
    LET n == ToFloat(d, key, value)
    IN  n.ok /\ ~n.nan /\ (n.inf \/ n.value >= 0)

\* The required part of the product rules of the design.
RequiredProductRulesHold(product) ==
    /\ Missing(product, {"id", "name", "base_price"}, {"stock_level"}) = {}
    /\ NonEmptyString(product, "id")
    /\ NonEmptyString(product, "name")
    /\ CoercesToNonNegative(product, "base_price", product.base_price)
    /\ TypeOf(product, "stock_level", "int") = "int"
    /\ product.stock_level[1] >= 0

\* C26: product validation accepts a product dict only if id, name,
\* base_price and stock_level are all present, id and name are non-empty
\* strings, base_price coerces to a number >= 0 and stock_level is an integer
\* >= 0; so a product without stock_level is rejected, base_price "12.50" is
\* accepted and base_price -1 is rejected.
ProductAcceptedOnlyWithinRequiredRules ==
    /\ Accepted("validate_product") => RequiredProductRulesHold(fn_in[2])
    /\ Answered("validate_product")
       => /\ fn_in[2] = WithoutStock(CatalogProduct("p1")) => fn_out[1] # ""
          /\ fn_in[2] = WithText(CatalogProduct("p1"), "base_price", Texts.price)
                => fn_out[1] = ""
          /\ fn_in[2] = WithKey(CatalogProduct("p1"), "base_price", "int", -1)
                => fn_out[1] # ""

\* A catalog entry dict within the variation rules.
VariationRulesHold(var) ==
    /\ Missing(var, {"type", "name"}, {"price_modifier"}) = {}
    /\ NonEmptyString(var, "type")
    /\ NonEmptyString(var, "name")
    /\ ToFloat(var, "price_modifier", var.price_modifier[1]).ok

\* The value under "variations" is a list of entries within the rules.
IsCatalogList(product) ==
    /\ TypeOf(product, "variations", "list") = "list"
    /\ \A j \in 1..Len(product.variations) :
          VariationRulesHold(product.variations[j])

\* The claim as stated: whatever is under the key, None included, must be of
\* the right type.
PresentOptionalKeyMustBeWellTyped ==
    (/\ Answered("validate_product")
     /\ \/ /\ "description" \in DOMAIN fn_in[2]
           /\ TypeOf(fn_in[2], "description", "str") # "str"
        \/ /\ "image" \in DOMAIN fn_in[2]
           /\ TypeOf(fn_in[2], "image", "str") # "str"
        \/ /\ "variations" \in DOMAIN fn_in[2]
           /\ ~IsCatalogList(fn_in[2]))
    => fn_out[1] # ""

\* C27: product validation rejects a product whose description is present
\* and is not a string, whose image is present and is neither None nor a
\* string, or whose variations is present, is not None and is not a list in
\* which every element has a non-empty string type, a non-empty string name
\* and a price_modifier that coerces to a number.
NonNullOptionalKeyMustBeWellTyped ==
    (/\ Answered("validate_product")
     /\ \/ /\ "description" \in DOMAIN fn_in[2]
           /\ TypeOf(fn_in[2], "description", "str") # "str"
        \/ /\ "image" \in DOMAIN fn_in[2]
           /\ TypeOf(fn_in[2], "image", "str") \notin {"NoneType", "str"}
        \/ /\ "variations" \in DOMAIN fn_in[2]
           /\ TypeOf(fn_in[2], "variations", "list") # "NoneType"
           /\ ~IsCatalogList(fn_in[2]))
    => fn_out[1] # ""

\* A product whose required keys are in order and whose second catalog
\* entry has an empty type has been rejected for that entry.
SecondCatalogEntryRefused ==
    /\ Rejected("validate_product")
    /\ RequiredProductRulesHold(fn_in[2])
    /\ Len(fn_in[2].variations) = 2
    /\ VariationRulesHold(fn_in[2].variations[1])
    /\ fn_in[2].variations[2].type = ""
    /\ fn_out[1] = "variation[1]['type'] must be non-empty string"

\* The quantity is an integer: an int, or a float without a fraction.
IsIntegerQuantity(item) ==
    \/ TypeOf(item, "quantity", "int") = "int"
    \/ /\ TypeOf(item, "quantity", "int") = "float"
       /\ item.quantity[1] % 100 = 0

\* The order-item rules of the design on a payload of any types; variations
\* of None count as absent.
OrderItemWellFormed(item) ==
    /\ Missing(item, {"product_id"}, {"quantity"}) = {}
    /\ NonEmptyString(item, "product_id")
    /\ IsIntegerQuantity(item)
    /\ ToInt(item, "quantity", item.quantity[1]).value > 0
    /\ ("variations" \in DOMAIN item /\ item.variations # None
        /\ TypeOf(item, "variations", "list") # "NoneType")
       => /\ TypeOf(item, "variations", "list") = "list"
          /\ \A j \in 1..Len(item.variations[1]) :
                LET var == item.variations[1][j]
                IN  /\ "type" \in DOMAIN var /\ "name" \in DOMAIN var
                    /\ TypeOf(var, "type", "str") = "str"
                    /\ TypeOf(var, "name", "str") = "str"

\* C28: order-item validation accepts an item if and only if product_id is
\* a non-empty string, quantity is an integer greater than 0 and variations,
\* when present, is a list whose every element has a string type and a string
\* name; a quantity that is not an integer, such as 2.7 or the string "3", is
\* rejected.
OrderItemAcceptedIffWellFormed ==
    Answered("validate_order_item")
    => (fn_out[1] = "" <=> OrderItemWellFormed(fn_in[2]))

\* The order rules of the design on a payload of any types.
OrderWellFormed(res) ==
    /\ res.is_dict
    /\ Missing(res.order, {"order_id", "items"}, {"total_amount"}) = {}
    /\ NonEmptyString(res.order, "order_id")
    /\ TypeOf(res.order, "items", "list") = "list"
    /\ res.order.items # <<>>
    /\ \A i \in 1..Len(res.order.items) :
          ValidateOrderItem(res.order.items[i]) = ""
    /\ CoercesToNonNegative(res.order, "total_amount",
                            res.order.total_amount[1])

\* C29: order validation accepts an order dict if and only if order_id is a
\* non-empty string, items is a non-empty list whose every element passes
\* order-item validation and total_amount coerces to a number >= 0; an order
\* with an empty items list is rejected even when its order_id and
\* total_amount are well-formed.
OrderAcceptedIffWellFormed ==
    Answered("validate_order_dict")
    => /\ fn_out[1] = "" <=> OrderWellFormed(fn_in[2])
       /\ (fn_in[2].is_dict
           /\ Missing(fn_in[2].order, {"items"}, {}) = {}
           /\ TypeOf(fn_in[2].order, "items", "list") = "list"
           /\ fn_in[2].order.items = <<>>)
          => fn_out[1] # ""

\* The indexes (from 1) of the products that fail product validation.
InvalidProducts(products) ==
    {i \in 1..Len(products) : ValidateProduct(products[i]) # ""}

\* C30: a list of products is valid if and only if it is a list and every
\* element passes product validation; the empty list is valid; for an invalid
\* list the reason names the lowest index (counted from 0) of an invalid
\* element, followed by that element's reason.
ProductListValidIffAllValid ==
    Answered("validate_products_list")
    => LET res == fn_in[2]
           bad == InvalidProducts(res.products)
       IN  /\ fn_out[1] = "" <=> (res.is_list /\ bad = {})
           /\ res = LookupReturned(<<>>) => fn_out[1] = ""
           /\ (res.is_list /\ bad # {})
              => fn_out[1]
                   = "Product[" \o ToString(Lowest(bad) - 1) \o "]: "
                     \o ValidateProduct(res.products[Lowest(bad)])

\* A list of two products, at fault in different ways, has been rejected for
\* the first of them.
TwoFaultyProductsFirstNamed ==
    /\ Rejected("validate_products_list")
    /\ InvalidProducts(fn_in[2].products) = {1, 2}
    /\ ValidateProduct(fn_in[2].products[1])
         # ValidateProduct(fn_in[2].products[2])
    /\ fn_out[1] = "Product[0]: Product missing: {'stock_level'}"

\* C31: each of the four validators answers every payload by returning:
\* ("" for (True, ""), a non-empty reason for (False, reason)); none of them
\* raises, whatever the shape of the payload (a value of the wrong type, a
\* missing key, an element that is not a dict), and the payload is what it
\* was before the call.
ValidatorsReturnAndLeavePayload ==
    /\ [](fn_out # <<>> => fn_out[1] # Overflow.raises)
    /\ [][fn_in' = fn_in]_vars

\* C32: after any sequence of store operations from the empty store, no
\* cart holds two distinct items with the same product_id whose variation
\* lists match under _variations_match, in either order of its arguments.
NoTwoItemsOfOneLine ==
    \A s \in DOMAIN carts :
        \A i, j \in 1..Len(carts[s].items) :
            (/\ i # j
             /\ carts[s].items[i].product_id = carts[s].items[j].product_id)
            => ~VariationsMatch(carts[s].items[i].variations,
                                carts[s].items[j].variations)

\* Two lines of p1 in one cart, the second of them met by an add that named
\* its variations in the other order and merged into it.
PermutedAddMergedIntoSecondLine ==
    /\ "s1" \in DOMAIN carts
    /\ Len(carts["s1"].items) = 2
    /\ carts["s1"].items[1].product_id = "p1"
    /\ carts["s1"].items[2].product_id = "p1"
    /\ carts["s1"].items[1].variations = <<>>
    /\ carts["s1"].items[2].variations = <<ColorRed, SizeL>>
    /\ carts["s1"].items[2].quantity = 3
    /\ last.op = "add"
    /\ last.session_id = "s1"
    /\ last.variations = <<SizeL, ColorRed>>


\* C33: an add_to_cart tool invocation that was suspended on the price lookup
\* calls the store with the session id it read when it began: the add is
\* recorded on that session, no other session's cart appears or changes, and
\* this holds whatever set_session_id made current during the suspension.
SuspendedAddKeepsItsSession ==
    [][\A i \in Invocations :
          (inv[i].pc = "awaiting" /\ inv'[i].pc = "done") =>
             /\ last'.op = "add"
             /\ last'.session_id = inv[i].session_id
             /\ inv'[i].session_id = inv[i].session_id
             /\ \A s \in DOMAIN carts' :
                   s # inv[i].session_id =>
                      s \in DOMAIN carts /\ carts'[s] = carts[s]
             /\ inv'[i].result = "added" =>
                   /\ inv[i].session_id \in DOMAIN carts'
                   /\ carts' # carts]_vars

\* Invocation 1 began on "s1", "s2" was current when it resumed, and its
\* item went into the cart of "s1"; "s2" has no cart.
AddLandedOnSessionOfStart ==
    /\ inv[1].pc = "done" /\ inv[1].result = "added"
    /\ inv[1].session_id = "s1"
    /\ inv[1].resumed_under = "s2"
    /\ last.op = "add" /\ last.session_id = "s1"
    /\ DOMAIN carts = {"s1"}
    /\ Len(carts["s1"].items) = 1
    /\ carts["s1"].items[1].quantity = inv[1].quantity


\* C34: an add that merges into an existing item ignores the unit_price it
\* is passed: the item keeps the unit price it had, its amount is that price
\* times the new quantity, and an item without a unit price stays without
\* unit_price and amount even when the add supplies a price.
MergeIgnoresPassedUnitPrice ==
    [][(StoreCalled /\ last'.op = "add" /\ last'.error = ""
        /\ last'.session_id \in DOMAIN carts) =>
          LET old == carts[last'.session_id].items
              new == carts'[last'.session_id].items
              idx == FindExisting(old, last'.product_id, last'.variations)
          IN  idx # 0 =>
                 /\ Len(new) = Len(old)
                 /\ new[idx].quantity = old[idx].quantity + last'.quantity
                 /\ new[idx].unit_price = old[idx].unit_price
                 /\ new[idx].amount =
                       IF old[idx].unit_price = None THEN None
                       ELSE Some(old[idx].unit_price[1] * new[idx].quantity)]_vars

\* An add with a price has merged into an item stored without one: the item
\* holds both quantities and still no unit_price nor amount.
PricedAddMergedIntoUnpricedItem ==
    /\ last.op = "add" /\ last.error = ""
    /\ last.unit_price = Some(2500)
    /\ last.session_id = "s1" /\ last.product_id = "p1"
    /\ "s1" \in DOMAIN carts
    /\ Len(carts["s1"].items) = 1
    /\ carts["s1"].items[1].product_id = "p1"
    /\ carts["s1"].items[1].quantity = 3
    /\ last.quantity = 2
    /\ carts["s1"].items[1].unit_price = None
    /\ carts["s1"].items[1].amount = None


\* C35: emptying a cart does not bring its session back to the view of a
\* session that never had one. A view of a session without a cart returns the
\* "Cart is empty" dict, which has no subtotal, shipping_fee or total_amount;
\* a view of a cart that exists with zero items under the default shipping
\* policy returns subtotal 0, shipping_fee 5.00 and total_amount 5.00.
EmptiedCartViewsWithBaseFee ==
    (last.op = "view" /\ last.error = "") =>
       LET s == last.session_id
           r == last.ret[1]
       IN  /\ s \notin DOMAIN carts =>
                 /\ r = EmptyCartReply(s)
                 /\ DOMAIN r \cap {"subtotal", "shipping_fee", "total_amount"} = {}
           /\ (/\ s \in DOMAIN carts
               /\ carts[s].items = <<>>
               /\ shipping_calculator = "default") =>
                 /\ r # EmptyCartReply(s)
                 /\ r.item_count = 0
                 /\ r.subtotal = 0
                 /\ r.shipping_fee = 500
                 /\ r.total_amount = 500

\* "s1" was added to, emptied by a remove and then viewed: the view carries
\* the base fee, while "s2" still has no cart.
ViewAfterAddAndRemove ==
    /\ nops = 3
    /\ last.op = "view" /\ last.session_id = "s1"
    /\ DOMAIN carts = {"s1"}
    /\ carts["s1"].items = <<>>
    /\ shipping_calculator = "default"
    /\ last.ret[1].shipping_fee = 500
    /\ last.ret[1].total_amount = 500


\* How many times the selected variations list the (type, name) of a catalog
\* entry, and whether the entry is the first of the catalog with its
\* (type, name).
TimesSelected(selected, entry) ==
    Cardinality({j \in 1..Len(selected) :
                    /\ selected[j].type = entry.type
                    /\ selected[j].name = entry.name})

FirstOfItsKind(catalog, e) ==
    \A d \in 1..(e - 1) :
        catalog[d].type # catalog[e].type \/ catalog[d].name # catalog[e].name

\* C36: in calculate_total only the first catalog entry of each (type, name)
\* contributes to a line's unit price, and it contributes its modifier once
\* for every time the selected variations list that (type, name): a later
\* entry with the same (type, name) adds nothing. With entries (color, red)
\* at 3.50 and again at 5.00 on base 20.00, selecting (color, red) twice
\* gives 27.00.
OnlyFirstEntryCountsOncePerSelection ==
    mt.op = "calculate_total"
    => \A i \in 1..Len(mt.order_items) :
          LET product == mt.results[i].products[1]
              catalog == product.variations
              selected == SelectedVariations(mt.items[i])
          IN  /\ mt.order_items[i].unit_price
                   = product.base_price
                     + SumSeq([e \in 1..Len(catalog) |->
                                  IF FirstOfItsKind(catalog, e)
                                  THEN TimesSelected(selected, catalog[e])
                                       * catalog[e].price_modifier[1]
                                  ELSE 0])
              /\ (/\ product.base_price = 2000
                  /\ Len(catalog) = 4
                  /\ catalog[1] = VarPM("color", "red", 350)
                  /\ catalog[4] = VarPM("color", "red", 500)
                  /\ selected = <<ColorRed, ColorRed>>)
                 => mt.order_items[i].unit_price = 2700

\* A line selecting (color, red) twice was priced from a catalog that holds
\* (color, red) at 3.50 and, further on, at 5.00.
RepeatedSelectionPricedFromDuplicatedCatalog ==
    /\ mt.op = "calculate_total" /\ mt.pc = "done"
    /\ Len(mt.order_items) = 1
    /\ mt.items[1] = TotalLine("p1", 1, Some(<<ColorRed, ColorRed>>))
    /\ Len(mt.results[1].products[1].variations) = 4
    /\ mt.results[1].products[1].variations[1] = VarPM("color", "red", 350)
    /\ mt.results[1].products[1].variations[4] = VarPM("color", "red", 500)
    /\ mt.order_items[1].unit_price = 2700
    /\ mt.total_amount = 2700

====
